---- MODULE Spec2Model ----
(***************************************************************************)
(* Model of the leptos_cache query cache: the scope registry (cache.rs),   *)
(* query entries and their staleness (query.rs), the garbage collection    *)
(* timers (gc.rs), the option resolver (query_options.rs) and the client   *)
(* facade (query_client.rs).                                               *)
(*                                                                         *)
(* Modelled build: the client build (cfg!(any(test, not(feature="ssr")))   *)
(* is true), so entries with a gc_time below one year own a timer.         *)
(* Time is a discrete clock `now`; durations are in the same unit.         *)
(* HashMaps are functions with a finite domain, Option<T> is None or T.    *)
(***************************************************************************)
EXTENDS Integers, Sequences, FiniteSets, TLC

\* ------------------------------------------------------------------ bounds
MaxTime == 3
NumKeys == 1
NumTypes == 1
NumValues == 2
NumCallers == 2
MaxCounter == 3
MaxCalls == 3
NumSyncKeys == 2
NumSyncTypes == 2
NumSyncValues == 1
MaxSyncCounter == 5
NumShapes == 2

Keys == 1..NumKeys
TypeIds == 1..NumTypes
Values == 1..NumValues
Callers == 1..NumCallers

\* Option::None for values, durations and timestamps (all of them naturals)
None == -1

\* --------------------------------------------------------- query_options.rs
DEFAULT_STALE_TIME == 10
DEFAULT_GC_TIME == 300

\* QueryOptions { stale_time: Option<Duration>, gc_time: Option<Duration> }
QueryOptions(st, gc) == [stale_time |-> st, gc_time |-> gc]

QueryOptions_default == QueryOptions(None, None)

\* QueryOptions::stale_time(): self.stale_time.unwrap_or(DEFAULT_STALE_TIME)
stale_time(o) == IF o.stale_time = None THEN DEFAULT_STALE_TIME ELSE o.stale_time

\* QueryOptions::gc_time(): self.gc_time.unwrap_or(DEFAULT_GC_TIME)
gc_time(o) == IF o.gc_time = None THEN DEFAULT_GC_TIME ELSE o.gc_time

\* Option::or
OptOr(a, b) == IF a # None THEN a ELSE b

\* QueryOptions::set_stale_time(self, stale_time): the assert! panics, or the
\* object with the field set is returned
set_stale_time(o, new_stale_time) ==
    IF o.gc_time # None /\ ~(new_stale_time <= o.gc_time)
    THEN [panicked |-> TRUE, self |-> o]
    ELSE [panicked |-> FALSE, self |-> [o EXCEPT !.stale_time = new_stale_time]]

\* set_gc_time without its assertion
set_gc_time_unchecked(o, new_gc_time) ==
    [panicked |-> FALSE, self |-> [o EXCEPT !.gc_time = new_gc_time]]

\* QueryOptions::set_gc_time(self, gc_time): the assert! panics, or the object
\* with the field set is returned
set_gc_time(o, new_gc_time) ==
    IF o.stale_time # None /\ ~(new_gc_time >= o.stale_time)
    THEN [panicked |-> TRUE, self |-> o]
    ELSE [panicked |-> FALSE, self |-> [o EXCEPT !.gc_time = new_gc_time]]

\* Option<QueryOptions>: the empty sequence is None, <<o>> is Some(o)
NoOptions == << >>
SomeOptions(o) == <<o>>

\* options_combine that lets the base win over the scope
options_combine_base_first(base, scope) ==
    IF scope # NoOptions
    THEN [stale_time |-> OptOr(base.stale_time, scope[1].stale_time),
          gc_time |-> OptOr(base.gc_time, scope[1].gc_time)]
    ELSE base

\* options_combine(base, scope: Option<QueryOptions>)
options_combine(base, scope) ==
    IF scope # NoOptions
    THEN [stale_time |-> OptOr(scope[1].stale_time, base.stale_time),
          gc_time |-> OptOr(scope[1].gc_time, base.gc_time)]
    ELSE base

\* Duration::from_secs(60 * 60 * 24 * 365), the "never collect" threshold
GcNeverThreshold == 60 * 60 * 24 * 365

\* Duration::MAX (u64::MAX seconds); the model's integers have 32 bits, so
\* it is the largest of them: above every other duration of the model
Duration_MAX == 2147483647

\* chrono TimeDelta::MAX (i64::MAX milliseconds), the longest duration that
\* TimeDelta::from_std converts; in the model's 32 bits it keeps its place
\* between the never-collect threshold and Duration::MAX
TimeDelta_MAX == 2000000000

\* chrono DateTime::<Utc>::MAX_UTC, the last instant a DateTime holds; it is
\* nearer than TimeDelta::MAX is long
DateTime_MAX == 1000000000

\* the durations the setters are called with
Durations == {0, 1, 2, GcNeverThreshold, Duration_MAX}

VARIABLES
    now,            \* chrono::Utc::now()
    options,        \* QueryClient.options
    scope_options,  \* query_scope.options() of every query type
    scopes,         \* ScopeLookup.scopes: TypeId -> Scope
    timers,         \* armed timeouts (set_timeout_with_handle / tokio task)
    signals,        \* value of every ArcRwSignal<u64> buster ever created
    counter,        \* COUNTER of random_u64_rolling
    counter_max,    \* how far this run lets COUNTER go
    locked,         \* the fetcher mutexes that are currently held
    callers,        \* the async fetch / prefetch calls
    calls,          \* number of upstream fetcher invocations per (type, key)
    last,           \* the last operation that ran or returned, and its result
    results         \* observer of SpecRace: what each caller's call returned

vars == <<now, options, scope_options, scopes, timers, signals, counter, counter_max,
          locked, callers, calls, last, results>>

\* ------------------------------------------------------------------ utils.rs
\* random_u64_rolling(): COUNTER.fetch_add(1) returns the previous value
random_u64_rolling == counter

\* --------------------------------------------------------------------- gc.rs
\* GcHandle::None
GcHandle_None == 0

\* every Query stored in some scope
AllQueries == UNION {{scopes[t].cache[k] : k \in DOMAIN scopes[t].cache} : t \in DOMAIN scopes}

\* identity of a newly scheduled timeout: one no live handle refers to
FreshTimerId ==
    LET used == {tm.id : tm \in timers} \cup {q.gc_handle : q \in AllQueries}
    IN CHOOSE i \in 1..(Cardinality(used) + 1) : i \notin used

\* GcHandle::new(gc_cb, duration): the handle, GcHandle::None without a callback
GcHandle_new(gc_cb) == IF gc_cb THEN FreshTimerId ELSE GcHandle_None

\* the timeout GcHandle::new schedules for (cache_key, key), if any
GcHandle_new_timers(gc_cb, cache_key, key, duration) ==
    IF gc_cb
    THEN {[id |-> FreshTimerId, cache_key |-> cache_key, key |-> key,
           armed_at |-> now, duration |-> duration]}
    ELSE {}

\* cancel that leaves the timeouts armed
GcHandle_cancel_keeps_timeout(tms, handles) == tms

\* GcHandle::cancel on a set of handles: their timeouts are cleared
GcHandle_cancel(tms, handles) == {tm \in tms : tm.id \notin handles}

\* ------------------------------------------------------------------ query.rs
\* Query::new that builds a gc callback whatever the gc_time
Query_gc_cb_always(combined_options) == TRUE

\* whether Query::new builds a gc callback
Query_gc_cb(combined_options) == gc_time(combined_options) < GcNeverThreshold

\* Query::new that stores no value
Query_new_without_value(cache_key, value, buster) ==
    LET combined_options == options_combine(options, scope_options[cache_key])
        gc_cb == Query_gc_cb(combined_options)
    IN [value |-> None,
        gc_handle |-> GcHandle_new(gc_cb),
        combined_options |-> combined_options,
        updated_at |-> now,
        gc_cb |-> gc_cb,
        buster |-> buster]

\* Query::new that leaves the new Query without a timestamp
Query_new_unstamped(cache_key, value, buster) ==
    LET combined_options == options_combine(options, scope_options[cache_key])
        gc_cb == Query_gc_cb(combined_options)
    IN [value |-> value,
        gc_handle |-> GcHandle_new(gc_cb),
        combined_options |-> combined_options,
        updated_at |-> None,
        gc_cb |-> gc_cb,
        buster |-> buster]

\* Query::new(client, cache_key, key, value, buster, scope_options)
Query_new(cache_key, value, buster) ==
    LET combined_options == options_combine(options, scope_options[cache_key])
        gc_cb == Query_gc_cb(combined_options)
    IN [value |-> value,
        gc_handle |-> GcHandle_new(gc_cb),
        combined_options |-> combined_options,
        updated_at |-> now,
        gc_cb |-> gc_cb,
        buster |-> buster]

\* the timeout Query::new schedules
Query_new_timers(cache_key, key) ==
    LET combined_options == options_combine(options, scope_options[cache_key])
    IN GcHandle_new_timers(Query_gc_cb(combined_options), cache_key, key,
                           gc_time(combined_options))

\* invalidate that also gives up the handle of the Query's timeout
Query_invalidate_drops_handle(q) == [q EXCEPT !.updated_at = None, !.gc_handle = GcHandle_None]

\* invalidate that leaves the timestamp in place
Query_invalidate_keeps_stamp(q) == q

\* Query::invalidate
Query_invalidate(q) == [q EXCEPT !.updated_at = None]

\* updated_at + stale_time in Query::stale is chrono's DateTime + Duration:
\* it panics when TimeDelta::from_std(rhs) fails (rhs above TimeDelta::MAX)
\* and when checked_add_signed leaves the range of DateTime
DateTime_add_panics(lhs, rhs) == rhs > TimeDelta_MAX \/ lhs + rhs > DateTime_MAX

\* Query::stale panics instead of returning
Query_stale_panics(q) ==
    /\ q.updated_at # None
    /\ DateTime_add_panics(q.updated_at, stale_time(q.combined_options))

\* stale that is already true at updated_at + stale_time
Query_stale_at_deadline(q) ==
    IF q.updated_at # None
    THEN LET stale_after == q.updated_at + stale_time(q.combined_options)
         IN now >= stale_after
    ELSE TRUE

\* Query::stale
Query_stale(q) ==
    IF q.updated_at # None
    THEN LET stale_after == q.updated_at + stale_time(q.combined_options)
         IN now > stale_after
    ELSE TRUE

\* set_value that leaves the timestamp as it was
Query_set_value_keeps_stamp(q, new_value) ==
    [q EXCEPT !.value = new_value,
              !.gc_handle = GcHandle_new(q.gc_cb)]

\* Query::set_value: the new GcValue and the new timestamp
Query_set_value(q, new_value) ==
    [q EXCEPT !.value = new_value,
              !.gc_handle = GcHandle_new(q.gc_cb),
              !.updated_at = now]

\* ------------------------------------------------------------------ cache.rs
\* HashMap::new()
EmptyMap == [x \in {} |-> 0]

\* HashMap::insert
MapPut(m, k, v) == [x \in (DOMAIN m) \cup {k} |-> IF x = k THEN v ELSE m[x]]

\* remove that removes nothing
MapRemove_keeps(m, k) == m

\* HashMap::remove
MapRemove(m, k) == [x \in (DOMAIN m) \ {k} |-> m[x]]

\* the (K, V) pairs a Scope<K, V> can be instantiated with; 1 is the pair of
\* the query type's own fetcher, which the typed methods of QueryClient use
Shapes == 1..NumShapes

\* Scope::<K, V>::default(); shape is the (K, V) of the concrete type behind
\* the Box<dyn ScopeTrait>
Scope_default == [cache |-> EmptyMap, fetcher_mutexes |-> EmptyMap, shape |-> 1]

\* a downcast that is not checked
type_mismatch_unchecked(cache_key, shape) == FALSE

\* downcast_ref / downcast_mut::<Scope<K, V>>() of the scope registered under
\* cache_key gives None, on which expect("Cache entry type mismatch.") panics
type_mismatch(cache_key, shape) ==
    cache_key \in DOMAIN scopes /\ scopes[cache_key].shape # shape

\* the scopes after entry(cache_key).or_insert_with(default_scope_cb)
WithScope(scs, cache_key) ==
    IF cache_key \in DOMAIN scs THEN scs ELSE MapPut(scs, cache_key, Scope_default)

\* identity of a newly allocated Arc<Mutex<()>>: one nothing refers to
FreshMutexId ==
    LET used == UNION {{scopes[t].fetcher_mutexes[k] : k \in DOMAIN scopes[t].fetcher_mutexes} : t \in DOMAIN scopes}
                \cup {callers[p].mutex : p \in Callers} \cup locked
    IN CHOOSE i \in 1..(Cardinality(used) + 1) : i \notin used

\* fetcher_mutex with one mutex for the whole scope instead of one per key
fetcher_mutex_per_scope(key, cache_key) ==
    LET scs == WithScope(scopes, cache_key)
        mutexes == scs[cache_key].fetcher_mutexes
    IN IF DOMAIN mutexes # {}
       THEN mutexes[CHOOSE k \in DOMAIN mutexes : TRUE]
       ELSE FreshMutexId

\* fetcher_mutex that allocates a new mutex on every call (no reuse)
fetcher_mutex_never_reused(key, cache_key) == FreshMutexId

\* ScopeLookup::fetcher_mutex: the mutex handed out for (cache_key, key)
fetcher_mutex(key, cache_key) ==
    LET scs == WithScope(scopes, cache_key)
    IN IF key \in DOMAIN scs[cache_key].fetcher_mutexes
       THEN scs[cache_key].fetcher_mutexes[key]
       ELSE FreshMutexId

\* ScopeLookup::fetcher_mutex: the registry after the call
fetcher_mutex_scopes(key, cache_key) ==
    LET scs == WithScope(scopes, cache_key)
    IN [scs EXCEPT ![cache_key].fetcher_mutexes =
            MapPut(@, key, fetcher_mutex(key, cache_key))]

\* ScopeLookup::with_cached_query: whether a Query is stored under the key
HasQuery(cache_key, key) ==
    cache_key \in DOMAIN scopes /\ key \in DOMAIN scopes[cache_key].cache

\* ScopeLookup::with_cached_query: the Query (only where HasQuery holds)
CachedQuery(cache_key, key) == scopes[cache_key].cache[key]

\* gc_query that drops the scope of the evicted entry whatever else it holds
gc_query_removes_scope(cache_key, key) ==
    IF cache_key \in DOMAIN scopes THEN MapRemove(scopes, cache_key) ELSE scopes

\* gc_query that removes nothing
gc_query_keeps_entry(cache_key, key) == scopes

\* ScopeLookup::gc_query: the registry after the timeout's callback ran
gc_query(cache_key, key) ==
    IF cache_key \in DOMAIN scopes
    THEN LET cache == MapRemove(scopes[cache_key].cache, key)
         IN IF DOMAIN cache = {}
            THEN MapRemove(scopes, cache_key)
            ELSE [scopes EXCEPT ![cache_key].cache = cache]
    ELSE scopes

\* the calls that are suspended: waiting for a contended fetcher mutex or
\* for their fetcher
Suspended == {p \in Callers : callers[p].pc \in {"waiting", "fetching"}}

\* a guard of ScopeLookup::scopes that a call keeps while it awaits its fetcher
registry_guards_across_fetch == {p \in Callers : callers[p].pc = "fetching"}

\* the calls that hold a guard of ScopeLookup::scopes (read_value / write_value)
\* while they are suspended: none. fetcher_mutex, with_cached_query and
\* with_cached_scope_mut take the guard as a local or a temporary and run a
\* synchronous closure under it; cached_or_fetch_inner awaits (cache.rs 273,
\* 302) between such calls, never inside one
registry_guards == {}

\* an operation that has to take a guard of ScopeLookup::scopes: it runs when
\* no suspended call holds one
registry_access(op) == registry_guards = {} /\ op

\* ------------------------------------------------------------ async callers
\* a caller with no call running
IdleCaller ==
    [pc |-> "idle", op |-> "none", cache_key |-> 0, key |-> 0, mutex |-> 0,
     contended |-> FALSE, custom_next_buster |-> 0, using_stale_buster |-> FALSE]

\* what `last` records: the operation, its query type and keys, what it
\* returned (ret: an Option or a Vec as a sequence, ok: a bool), for a read
\* (get_cached, exists, a fetch served by fetch_inner from the cache) the time
\* it ran, for a fetch or prefetch how it was served, and for an operation
\* that sets the buster of an entry it has written (seen) what the registry
\* held under the key at the moment of the set
Op(op, cache_key, keys, ret, ok) ==
    [op |-> op, cache_key |-> cache_key, keys |-> keys, ret |-> ret, ok |-> ok,
     at |-> IF op \in {"get_cached", "exists"} THEN now ELSE 0, via |-> "none",
     seen |-> << >>]

\* Option<V> as a sequence: None is empty
Opt(v) == IF v = None THEN << >> ELSE <<v>>

\* what `last` records when a fetch or prefetch call returns ret; via tells
\* how: "cached" (served by fetch_inner from the cache), "skipped" (prefetch of
\* a fresh entry), "waited" (served from the cache after waiting for the lock),
\* "fetched" (fetched with the lock taken by try_lock), "refetched" (fetched
\* after waiting for the lock), "panicked" (it did not return: stale() panicked)
Return(op, cache_key, key, ret, via) ==
    [Op(op, cache_key, <<key>>, Opt(ret), FALSE) EXCEPT
        !.via = via, !.at = IF via = "cached" THEN now ELSE 0]

\* the value a call hands back: return_cb is Clone::clone for fetch, |_v| {} for prefetch
return_cb(op, value) == IF op \in {"fetch", "resource"} THEN value ELSE None

\* ArcRwSignal::new(random_u64_rolling()): the identity of the new signal
NewSignal == counter + 1

\* cached_or_fetch_inner up to its first suspension: fetcher_mutex, try_lock,
\* and on success the call of the fetcher (cache.rs 263-302);
\* custom_next_buster is the signal the caller supplies, 0 for None
cached_or_fetch_begin(p, op, cache_key, key, custom_next_buster) ==
    LET m == fetcher_mutex(key, cache_key)
        c == [pc |-> "waiting", op |-> op, cache_key |-> cache_key, key |-> key,
              mutex |-> m, contended |-> TRUE, custom_next_buster |-> custom_next_buster,
              using_stale_buster |-> FALSE]
    IN /\ scopes' = fetcher_mutex_scopes(key, cache_key)
       /\ IF m \notin locked
          THEN /\ locked' = locked \cup {m}
               /\ callers' = [callers EXCEPT ![p] =
                      [c EXCEPT !.pc = "fetching", !.contended = FALSE]]
               /\ calls' = [calls EXCEPT ![cache_key][key] = @ + 1]
          ELSE /\ callers' = [callers EXCEPT ![p] = c]
               /\ UNCHANGED <<locked, calls>>
       /\ UNCHANGED <<now, options, scope_options, counter_max, timers, signals, counter, last>>

\* cached.stale() panicked inside the closure given to with_cached_query: the
\* call of caller p ends there unwinding, with the registry as it was; a
\* caller that had just been given the fetcher mutex drops its guard
stale_panicked(p, op, cache_key, key) ==
    /\ callers' = [callers EXCEPT ![p] = IdleCaller]
    /\ last' = Return(op, cache_key, key, None, "panicked")
    /\ UNCHANGED <<now, options, scope_options, counter_max, scopes, timers, signals,
                   counter, locked, calls>>

\* fetch_inner without the cached branch: every call goes to cached_or_fetch
fetch_query_always_fetches(p, cache_key, key) ==
    /\ callers[p].pc = "idle"
    /\ cached_or_fetch_begin(p, "fetch", cache_key, key, 0)

\* QueryClient::fetch_query / fetch_inner up to the first suspension
fetch_query(p, cache_key, key) ==
    /\ callers[p].pc = "idle"
    /\ IF HasQuery(cache_key, key) /\ Query_stale_panics(CachedQuery(cache_key, key))
       THEN stale_panicked(p, "fetch", cache_key, key)
       ELSE IF HasQuery(cache_key, key) /\ ~Query_stale(CachedQuery(cache_key, key))
            THEN /\ last' = Return("fetch", cache_key, key,
                                    CachedQuery(cache_key, key).value, "cached")
                 /\ UNCHANGED <<now, options, scope_options, counter_max, scopes, timers,
                                signals, counter, locked, callers, calls>>
            ELSE cached_or_fetch_begin(p, "fetch", cache_key, key, 0)

\* prefetch_inner that goes to cached_or_fetch whatever the entry's state
prefetch_query_always_fetches(p, cache_key, key) ==
    /\ callers[p].pc = "idle"
    /\ cached_or_fetch_begin(p, "prefetch", cache_key, key, 0)

\* QueryClient::prefetch_query / prefetch_inner up to the first suspension
prefetch_query(p, cache_key, key) ==
    /\ callers[p].pc = "idle"
    /\ IF HasQuery(cache_key, key) /\ Query_stale_panics(CachedQuery(cache_key, key))
       THEN stale_panicked(p, "prefetch", cache_key, key)
       ELSE LET needs_prefetch ==
                IF HasQuery(cache_key, key)
                THEN Query_stale(CachedQuery(cache_key, key)) ELSE TRUE
            IN IF needs_prefetch
               THEN cached_or_fetch_begin(p, "prefetch", cache_key, key, 0)
               ELSE /\ last' = Return("prefetch", cache_key, key, None, "skipped")
                    /\ UNCHANGED <<now, options, scope_options, counter_max, scopes, timers,
                                   signals, counter, locked, callers, calls>>

\* arc_resource_with_options up to the creation of the resource
\* (query_client.rs 326-331): the resource of caller p for (cache_key, key)
\* gets its own signal next_buster
resource_new(p, cache_key, key) ==
    /\ callers[p].pc = "idle"
    /\ counter < counter_max
    /\ signals' = MapPut(signals, NewSignal, random_u64_rolling)
    /\ counter' = counter + 1
    /\ callers' = [callers EXCEPT ![p] =
           [IdleCaller EXCEPT !.pc = "resource", !.op = "resource",
                              !.cache_key = cache_key, !.key = key,
                              !.custom_next_buster = NewSignal]]
    /\ UNCHANGED <<now, options, scope_options, counter_max, scopes, timers, locked,
                   calls, last>>

\* the fetcher of the resource runs (query_client.rs 346-389): an entry that
\* is there is served, stale or not (for a stale one a prefetch is spawned,
\* which is a prefetch_query of its own later); without an entry it goes to
\* cached_or_fetch with Some(next_buster)
resource_fetcher(p) ==
    LET c == callers[p]
    IN /\ c.pc = "resource"
       /\ IF HasQuery(c.cache_key, c.key)
          THEN IF Query_stale_panics(CachedQuery(c.cache_key, c.key))
               THEN stale_panicked(p, "resource", c.cache_key, c.key)
               ELSE /\ callers' = [callers EXCEPT ![p] = IdleCaller]
                    /\ last' = Return("resource", c.cache_key, c.key,
                                      CachedQuery(c.cache_key, c.key).value, "cached")
                    /\ UNCHANGED <<now, options, scope_options, counter_max, scopes,
                                   timers, signals, counter, locked, calls>>
          ELSE cached_or_fetch_begin(p, "resource", c.cache_key, c.key, c.custom_next_buster)

\* cached_or_fetch_inner that serves whatever is cached once it has the lock,
\* without asking whether it is stale
lock_acquired_serves_stale(p) ==
    LET c == callers[p]
    IN /\ c.pc = "waiting"
       /\ c.mutex \notin locked
       /\ IF HasQuery(c.cache_key, c.key)
          THEN /\ callers' = [callers EXCEPT ![p] = IdleCaller]
               /\ last' = Return(c.op, c.cache_key, c.key,
                                 return_cb(c.op, CachedQuery(c.cache_key, c.key).value),
                                 "waited")
               /\ UNCHANGED <<locked, calls>>
          ELSE /\ callers' = [callers EXCEPT ![p] = [c EXCEPT !.pc = "fetching"]]
               /\ locked' = locked \cup {c.mutex}
               /\ calls' = [calls EXCEPT ![c.cache_key][c.key] = @ + 1]
               /\ UNCHANGED last
       /\ UNCHANGED <<now, options, scope_options, counter_max, scopes, timers, signals, counter>>

\* cached_or_fetch_inner that keeps a custom_next_buster it was given when it
\* finds a stale entry after waiting
lock_acquired_keeps_supplied(p) ==
    LET c == callers[p]
    IN /\ c.pc = "waiting"
       /\ c.mutex \notin locked
       /\ IF HasQuery(c.cache_key, c.key)
          THEN LET cached == CachedQuery(c.cache_key, c.key)
               IN IF Query_stale_panics(cached)
                  THEN /\ callers' = [callers EXCEPT ![p] = IdleCaller]
                       /\ last' = Return(c.op, c.cache_key, c.key, None, "panicked")
                       /\ UNCHANGED <<locked, calls>>
                  ELSE IF Query_stale(cached)
                  THEN /\ callers' = [callers EXCEPT ![p] =
                              [c EXCEPT !.pc = "fetching",
                                        !.custom_next_buster =
                                            IF @ # 0 THEN @ ELSE cached.buster,
                                        !.using_stale_buster = TRUE]]
                       /\ locked' = locked \cup {c.mutex}
                       /\ calls' = [calls EXCEPT ![c.cache_key][c.key] = @ + 1]
                       /\ UNCHANGED last
                  ELSE /\ callers' = [callers EXCEPT ![p] = IdleCaller]
                       /\ last' = Return(c.op, c.cache_key, c.key,
                                         return_cb(c.op, cached.value), "waited")
                       /\ UNCHANGED <<locked, calls>>
          ELSE /\ callers' = [callers EXCEPT ![p] = [c EXCEPT !.pc = "fetching"]]
               /\ locked' = locked \cup {c.mutex}
               /\ calls' = [calls EXCEPT ![c.cache_key][c.key] = @ + 1]
               /\ UNCHANGED last
       /\ UNCHANGED <<now, options, scope_options, counter_max, scopes, timers, signals, counter>>

\* cached_or_fetch_inner resumed after fetcher_mutex.lock().await: the cache is
\* checked again (cache.rs 273-300), then the fetcher is called (302)
lock_acquired(p) ==
    LET c == callers[p]
    IN /\ c.pc = "waiting"
       /\ c.mutex \notin locked
       /\ IF HasQuery(c.cache_key, c.key)
          THEN LET cached == CachedQuery(c.cache_key, c.key)
               IN IF Query_stale_panics(cached)
                  THEN /\ callers' = [callers EXCEPT ![p] = IdleCaller]
                       /\ last' = Return(c.op, c.cache_key, c.key, None, "panicked")
                       /\ UNCHANGED <<locked, calls>>
                  ELSE IF Query_stale(cached)
                  THEN /\ callers' = [callers EXCEPT ![p] =
                              [c EXCEPT !.pc = "fetching",
                                        !.custom_next_buster = cached.buster,
                                        !.using_stale_buster = TRUE]]
                       /\ locked' = locked \cup {c.mutex}
                       /\ calls' = [calls EXCEPT ![c.cache_key][c.key] = @ + 1]
                       /\ UNCHANGED last
                  ELSE \* return cached: the guard is dropped on return
                       /\ callers' = [callers EXCEPT ![p] = IdleCaller]
                       /\ last' = Return(c.op, c.cache_key, c.key,
                                         return_cb(c.op, cached.value), "waited")
                       /\ UNCHANGED <<locked, calls>>
          ELSE /\ callers' = [callers EXCEPT ![p] = [c EXCEPT !.pc = "fetching"]]
               /\ locked' = locked \cup {c.mutex}
               /\ calls' = [calls EXCEPT ![c.cache_key][c.key] = @ + 1]
               /\ UNCHANGED last
       /\ UNCHANGED <<now, options, scope_options, counter_max, scopes, timers, signals, counter>>

\* what a reader finds under (cache_key, key) in the registry scs
ValueIn(scs, cache_key, key) ==
    IF cache_key \in DOMAIN scs /\ key \in DOMAIN scs[cache_key].cache
    THEN <<scs[cache_key].cache[key].value>>
    ELSE << >>

\* a rotation placed before the insert
registry_at_rotation_before_insert(before, after) == before

\* the registry at the moment cached_or_fetch_inner sets a reused buster
\* (cache.rs 330-332): the one the insert at cache.rs 313-327 has left
registry_at_rotation(before, after) == after

\* cached_or_fetch_inner that writes its result only where no entry is
fetch_complete_keeps_existing(p, new_value) ==
    LET c == callers[p]
        minted == c.custom_next_buster = 0
        next_buster == IF minted THEN NewSignal ELSE c.custom_next_buster
        scs == WithScope(scopes, c.cache_key)
        old == scs[c.cache_key].cache
        query == Query_new(c.cache_key, new_value, next_buster)
    IN /\ c.pc = "fetching"
       /\ counter < counter_max
       /\ scopes' = IF c.key \in DOMAIN old
                    THEN scs
                    ELSE [scs EXCEPT ![c.cache_key].cache = MapPut(old, c.key, query)]
       /\ timers' = IF c.key \in DOMAIN old
                    THEN timers
                    ELSE timers \cup Query_new_timers(c.cache_key, c.key)
       /\ signals' = IF minted
                     THEN MapPut(signals, next_buster, random_u64_rolling)
                     ELSE IF c.using_stale_buster
                          THEN [signals EXCEPT ![next_buster] = random_u64_rolling]
                          ELSE signals
       /\ counter' = IF minted \/ c.using_stale_buster THEN counter + 1 ELSE counter
       /\ locked' = locked \ {c.mutex}
       /\ callers' = [callers EXCEPT ![p] = IdleCaller]
       /\ last' = Return(c.op, c.cache_key, c.key, return_cb(c.op, new_value),
                         IF c.contended THEN "refetched" ELSE "fetched")
       /\ UNCHANGED <<now, options, scope_options, counter_max, calls>>

\* cached_or_fetch_inner that returns with _fetcher_guard still locked
fetch_complete_keeps_lock(p, new_value) ==
    LET c == callers[p]
        minted == c.custom_next_buster = 0
        next_buster == IF minted THEN NewSignal ELSE c.custom_next_buster
        scs == WithScope(scopes, c.cache_key)
        old == scs[c.cache_key].cache
        query == Query_new(c.cache_key, new_value, next_buster)
        dropped == IF c.key \in DOMAIN old THEN {old[c.key].gc_handle} ELSE {}
        written == [scs EXCEPT ![c.cache_key].cache = MapPut(old, c.key, query)]
    IN /\ c.pc = "fetching"
       /\ counter < counter_max
       /\ scopes' = written
       /\ timers' = GcHandle_cancel(timers \cup Query_new_timers(c.cache_key, c.key), dropped)
       /\ signals' = IF minted
                     THEN MapPut(signals, next_buster, random_u64_rolling)
                     ELSE IF c.using_stale_buster
                          THEN [signals EXCEPT ![next_buster] = random_u64_rolling]
                          ELSE signals
       /\ counter' = IF minted \/ c.using_stale_buster THEN counter + 1 ELSE counter
       /\ locked' = locked
       /\ callers' = [callers EXCEPT ![p] = IdleCaller]
       /\ last' = Return(c.op, c.cache_key, c.key, return_cb(c.op, new_value),
                         IF c.contended THEN "refetched" ELSE "fetched")
       /\ UNCHANGED <<now, options, scope_options, counter_max, calls>>

\* cached_or_fetch_inner resumed after fetcher(key).await with new_value
\* (cache.rs 302-335): pick the buster, write the Query, rotate a reused
\* buster, drop the guard, return
fetch_complete(p, new_value) ==
    LET c == callers[p]
        minted == c.custom_next_buster = 0
        next_buster == IF minted THEN NewSignal ELSE c.custom_next_buster
        scs == WithScope(scopes, c.cache_key)
        old == scs[c.cache_key].cache
        query == Query_new(c.cache_key, new_value, next_buster)
        dropped == IF c.key \in DOMAIN old THEN {old[c.key].gc_handle} ELSE {}
        written == [scs EXCEPT ![c.cache_key].cache = MapPut(old, c.key, query)]
    IN /\ c.pc = "fetching"
       /\ counter < counter_max
       /\ scopes' = written
       /\ timers' = GcHandle_cancel(timers \cup Query_new_timers(c.cache_key, c.key), dropped)
       /\ signals' = IF minted
                     THEN MapPut(signals, next_buster, random_u64_rolling)
                     ELSE IF c.using_stale_buster
                          THEN [signals EXCEPT ![next_buster] = random_u64_rolling]
                          ELSE signals
       /\ counter' = IF minted \/ c.using_stale_buster THEN counter + 1 ELSE counter
       /\ locked' = locked \ {c.mutex}
       /\ callers' = [callers EXCEPT ![p] = IdleCaller]
       /\ last' = [Return(c.op, c.cache_key, c.key, return_cb(c.op, new_value),
                          IF c.contended THEN "refetched" ELSE "fetched")
                   EXCEPT !.seen =
                       IF c.using_stale_buster
                       THEN <<ValueIn(registry_at_rotation(scopes, written),
                                      c.cache_key, c.key)>>
                       ELSE << >>]
       /\ UNCHANGED <<now, options, scope_options, counter_max, calls>>

\* a dropped future that keeps its guard
fetch_abandon_keeps_lock(p) ==
    LET c == callers[p]
    IN /\ c.pc \in {"waiting", "fetching"}
       /\ c.pc = "fetching" => calls[c.cache_key][c.key] < MaxCalls
       /\ callers' = [callers EXCEPT ![p] = IdleCaller]
       /\ last' = Op("abandon", c.cache_key, <<c.key>>, << >>, c.pc = "fetching")
       /\ UNCHANGED <<now, options, scope_options, counter_max, scopes, timers, signals, counter,
                      locked, calls>>

\* the future of cached_or_fetch_inner is dropped at one of its two awaits
\* (lock().await at cache.rs 271, fetcher(key).await at 302): by its owner, or
\* by a panic of the fetcher unwinding through it. A future dropped at the
\* second await owns _fetcher_guard (cache.rs 266), which unlocks the mutex
\* when dropped; nothing after the await runs. ok records whether it held
\* the lock
fetch_abandon(p) ==
    LET c == callers[p]
    IN /\ c.pc \in {"waiting", "fetching"}
       /\ c.pc = "fetching" => calls[c.cache_key][c.key] < MaxCalls
       /\ locked' = IF c.pc = "fetching" THEN locked \ {c.mutex} ELSE locked
       /\ callers' = [callers EXCEPT ![p] = IdleCaller]
       /\ last' = Op("abandon", c.cache_key, <<c.key>>, << >>, c.pc = "fetching")
       /\ UNCHANGED <<now, options, scope_options, counter_max, scopes, timers, signals, counter, calls>>

\* ---------------------------------------------------------- query_client.rs
\* set_inner that leaves an existing Query as it is
set_inner_scopes_insert_only(cache_key, key, new_value) ==
    LET scs == WithScope(scopes, cache_key)
        cache == scs[cache_key].cache
    IN IF key \in DOMAIN cache
       THEN scs
       ELSE [scs EXCEPT ![cache_key].cache =
                MapPut(cache, key, Query_new(cache_key, new_value, NewSignal))]

\* QueryClient::set_inner: the registry after the call
set_inner_scopes(cache_key, key, new_value) ==
    LET scs == WithScope(scopes, cache_key)
        cache == scs[cache_key].cache
    IN IF key \in DOMAIN cache
       THEN [scs EXCEPT ![cache_key].cache[key] = Query_set_value(cache[key], new_value)]
       ELSE [scs EXCEPT ![cache_key].cache =
                MapPut(cache, key, Query_new(cache_key, new_value, NewSignal))]

\* set_inner whose set_value arms the new timeout and leaves the old one armed
set_inner_timers_arms_only(cache_key, key) ==
    IF HasQuery(cache_key, key)
    THEN LET cached == CachedQuery(cache_key, key)
         IN timers \cup GcHandle_new_timers(cached.gc_cb, cache_key, key,
                                            gc_time(cached.combined_options))
    ELSE timers \cup Query_new_timers(cache_key, key)

\* QueryClient::set_inner: the armed timeouts after the call
set_inner_timers(cache_key, key) ==
    IF HasQuery(cache_key, key)
    THEN LET cached == CachedQuery(cache_key, key)
         IN GcHandle_cancel(
                timers \cup GcHandle_new_timers(cached.gc_cb, cache_key, key,
                                                gc_time(cached.combined_options)),
                {cached.gc_handle})
    ELSE timers \cup Query_new_timers(cache_key, key)

\* QueryClient::set_inner: the busters after the call
set_inner_signals(cache_key, key) ==
    IF HasQuery(cache_key, key)
    THEN [signals EXCEPT ![CachedQuery(cache_key, key).buster] = random_u64_rolling]
    ELSE MapPut(signals, NewSignal, random_u64_rolling)

\* QueryClient::set_query
set_query(cache_key, key, new_value) ==
    /\ counter < counter_max
    /\ scopes' = set_inner_scopes(cache_key, key, new_value)
    /\ timers' = set_inner_timers(cache_key, key)
    /\ signals' = set_inner_signals(cache_key, key)
    /\ counter' = counter + 1
    /\ last' = Op("set", cache_key, <<key>>, << >>, FALSE)
    /\ UNCHANGED <<now, options, scope_options, counter_max, locked, callers, calls>>

\* a buster set placed before the cache change
registry_at_update_set_before_change(before, after) == before

\* the registry at the moment update_query_inner sets the buster of the entry
\* it found (query_client.rs 814): the one remove_entry (791) and, if the
\* modifier left a value, insert (807) have left
registry_at_update_set(before, after) == after

\* QueryClient::update_query / update_query_inner; `left` is what the modifier
\* leaves in the Option it was given, the modifier returns what it was given
update_query(cache_key, key, left) ==
    /\ counter < counter_max
    /\ IF HasQuery(cache_key, key)
       THEN LET cached == CachedQuery(cache_key, key)
                removed == MapRemove(scopes[cache_key].cache, key)
                into_value == GcHandle_cancel(timers, {cached.gc_handle})
                changed == IF left # None
                           THEN [scopes EXCEPT ![cache_key].cache =
                                   MapPut(removed, key, Query_new(cache_key, left, cached.buster))]
                           ELSE [scopes EXCEPT ![cache_key].cache = removed]
            IN /\ scopes' = changed
               /\ timers' = IF left # None
                            THEN into_value \cup Query_new_timers(cache_key, key)
                            ELSE into_value
               /\ signals' = [signals EXCEPT ![cached.buster] = random_u64_rolling]
               /\ counter' = counter + 1
               /\ last' = [Op("update", cache_key, <<key>>, <<cached.value>>, FALSE)
                           EXCEPT !.seen =
                               <<ValueIn(registry_at_update_set(scopes, changed),
                                         cache_key, key)>>]
       ELSE /\ IF left # None
               THEN /\ scopes' = set_inner_scopes(cache_key, key, left)
                    /\ timers' = set_inner_timers(cache_key, key)
                    /\ signals' = set_inner_signals(cache_key, key)
                    /\ counter' = counter + 1
               ELSE UNCHANGED <<scopes, timers, signals, counter>>
            /\ last' = Op("update", cache_key, <<key>>, << >>, FALSE)
    /\ UNCHANGED <<now, options, scope_options, counter_max, locked, callers, calls>>

\* QueryClient::get_cached_query
get_cached(cache_key, key) ==
    IF HasQuery(cache_key, key) THEN CachedQuery(cache_key, key).value ELSE None

\* QueryClient::query_exists
exists(cache_key, key) == HasQuery(cache_key, key)

\* get_cached_query that opens the scope the way the writers do, creating it
get_cached_query_creates_scope(cache_key, key) ==
    /\ last' = Op("get_cached", cache_key, <<key>>, Opt(get_cached(cache_key, key)), FALSE)
    /\ scopes' = WithScope(scopes, cache_key)
    /\ UNCHANGED <<now, options, scope_options, counter_max, timers, signals, counter,
                   locked, callers, calls>>

\* QueryClient::get_cached_query as an operation of the client
get_cached_query(cache_key, key) ==
    /\ last' = Op("get_cached", cache_key, <<key>>, Opt(get_cached(cache_key, key)), FALSE)
    /\ UNCHANGED <<now, options, scope_options, counter_max, scopes, timers, signals, counter,
                   locked, callers, calls>>

\* QueryClient::query_exists as an operation of the client
query_exists(cache_key, key) ==
    /\ last' = Op("exists", cache_key, <<key>>, << >>, exists(cache_key, key))
    /\ UNCHANGED <<now, options, scope_options, counter_max, scopes, timers, signals, counter,
                   locked, callers, calls>>

\* all orders in which a finite set can be enumerated
Orders(S) == {f \in [1..Cardinality(S) -> S] : \A i, j \in 1..Cardinality(S) : f[i] = f[j] => i = j}

\* position of x in the sequence seq, 0 if it does not occur
IndexOf(seq, x) == IF \E i \in 1..Len(seq) : seq[i] = x
                   THEN CHOOSE i \in 1..Len(seq) : seq[i] = x
                   ELSE 0

\* the keys that had a Query, the first of them left out
invalidated_keys_without_first(cache_key, keys) ==
    LET had == SelectSeq(keys, LAMBDA k : HasQuery(cache_key, k))
    IN IF had = << >> THEN << >> ELSE Tail(had)

\* QueryClient::invalidate_queries_inner over the keys in iteration order:
\* the keys that had a Query
invalidated_keys(cache_key, keys) ==
    SelectSeq(keys, LAMBDA k : HasQuery(cache_key, k))

\* QueryClient::invalidate_queries_inner: every given key that has a Query is
\* invalidated and its buster set, in iteration order
invalidate_queries_inner(cache_key, keys) ==
    LET invalidated == invalidated_keys(cache_key, keys)
    IN /\ counter + Len(invalidated) <= counter_max
       /\ scopes' = IF cache_key \in DOMAIN scopes
                    THEN [scopes EXCEPT ![cache_key].cache =
                            [k \in DOMAIN @ |-> IF IndexOf(invalidated, k) > 0
                                                THEN Query_invalidate(@[k]) ELSE @[k]]]
                    ELSE scopes
       /\ signals' = [b \in DOMAIN signals |->
                        LET hits == {i \in 1..Len(invalidated) :
                                        CachedQuery(cache_key, invalidated[i]).buster = b}
                        IN IF hits # {}
                           THEN \* a key given twice is set twice: the last set stays
                                counter + (CHOOSE i \in hits : \A j \in hits : j <= i) - 1
                           ELSE signals[b]]
       /\ counter' = counter + Len(invalidated)
       /\ UNCHANGED <<now, options, scope_options, counter_max, timers, locked, callers, calls>>

\* QueryClient::invalidate_queries
invalidate_queries(cache_key, keys) ==
    /\ invalidate_queries_inner(cache_key, keys)
    /\ last' = Op("invalidate_many", cache_key, keys, invalidated_keys(cache_key, keys), FALSE)

\* QueryClient::invalidate_query: invalidate_queries(once(key)), !cleared.is_empty()
invalidate_query(cache_key, key) ==
    /\ invalidate_queries_inner(cache_key, <<key>>)
    /\ last' = Op("invalidate_one", cache_key, <<key>>, << >>,
                invalidated_keys(cache_key, <<key>>) # << >>)

\* invalidate_scope that invalidates nothing
invalidate_scope_keeps_stamps(scope) == scope

\* Busters::invalidate_scope
invalidate_scope(scope) ==
    [scope EXCEPT !.cache = [k \in DOMAIN @ |-> Query_invalidate(@[k])]]

\* the busters after try_set(random_u64_rolling()) on each (cache_key, key) of
\* the sequence `order`
set_busters(order) ==
    [b \in DOMAIN signals |->
        IF \E i \in 1..Len(order) : CachedQuery(order[i][1], order[i][2]).buster = b
        THEN counter + (CHOOSE i \in 1..Len(order) :
                            CachedQuery(order[i][1], order[i][2]).buster = b) - 1
        ELSE signals[b]]

\* QueryClient::invalidate_query_type; `order` is the iteration order of
\* Scope::busters (HashMap::values)
invalidate_query_type(cache_key, order) ==
    /\ counter + Len(order) <= counter_max
    /\ IF cache_key \in DOMAIN scopes
       THEN /\ {order[i] : i \in 1..Len(order)} =
                  {<<cache_key, k>> : k \in DOMAIN scopes[cache_key].cache}
            /\ scopes' = [scopes EXCEPT ![cache_key] = invalidate_scope(@)]
            /\ signals' = set_busters(order)
            /\ counter' = counter + Len(order)
       ELSE /\ order = << >>
            /\ UNCHANGED <<scopes, signals, counter>>
    /\ last' = Op("invalidate_type", cache_key, << >>, << >>, FALSE)
    /\ UNCHANGED <<now, options, scope_options, counter_max, timers, locked, callers, calls>>

\* every (cache_key, key) that has a Query
AllEntries == UNION {{<<t, k>> : k \in DOMAIN scopes[t].cache} : t \in DOMAIN scopes}

\* QueryClient::invalidate_all_queries; `order` is the iteration order of
\* guard.values().flat_map(busters): the entries scope by scope
invalidate_all_queries(order) ==
    /\ counter + Len(order) <= counter_max
    /\ {order[i] : i \in 1..Len(order)} = AllEntries
    /\ \A i, j \in 1..Len(order) :
          i < j /\ order[i][1] = order[j][1] => \A m \in i..j : order[m][1] = order[i][1]
    /\ scopes' = [t \in DOMAIN scopes |-> invalidate_scope(scopes[t])]
    /\ signals' = set_busters(order)
    /\ counter' = counter + Len(order)
    /\ last' = Op("invalidate_all", 0, << >>, << >>, FALSE)
    /\ UNCHANGED <<now, options, scope_options, counter_max, timers, locked, callers, calls>>

\* the timeout `tm` fires (gc.rs 54-66): its callback runs
\* ScopeLookup::gc_query; the Query it removes is dropped, which cancels the
\* handle that Query owns
gc_fire(tm) ==
    /\ tm \in timers
    /\ now >= tm.armed_at + tm.duration
    /\ scopes' = gc_query(tm.cache_key, tm.key)
    /\ timers' = GcHandle_cancel(timers \ {tm},
                    IF HasQuery(tm.cache_key, tm.key)
                    THEN {CachedQuery(tm.cache_key, tm.key).gc_handle} ELSE {})
    /\ last' = Op("gc", tm.cache_key, <<tm.key>>, << >>, exists(tm.cache_key, tm.key))
    /\ UNCHANGED <<now, options, scope_options, counter_max, signals, counter, locked, callers, calls>>

\* an access to the registry panicked on the downcast: nothing is returned
\* and the registry is as it was
mismatch_panicked(op, cache_key, key) ==
    /\ last' = [Op(op, cache_key, <<key>>, << >>, FALSE) EXCEPT !.via = "panicked"]
    /\ UNCHANGED <<now, options, scope_options, counter_max, scopes, timers, signals,
                   counter, locked, callers, calls>>

\* ScopeLookup::fetcher_mutex::<K, V>(key, cache_key, default_scope_cb) called
\* with the (K, V) numbered shape; ret is the mutex handed out
lookup_fetcher_mutex(cache_key, key, shape) ==
    IF type_mismatch(cache_key, shape)
    THEN mismatch_panicked("fetcher_mutex", cache_key, key)
    ELSE /\ scopes' = [fetcher_mutex_scopes(key, cache_key) EXCEPT ![cache_key].shape = shape]
         /\ last' = Op("fetcher_mutex", cache_key, <<key>>, <<fetcher_mutex(key, cache_key)>>, TRUE)
         /\ UNCHANGED <<now, options, scope_options, counter_max, timers, signals,
                        counter, locked, callers, calls>>

\* ScopeLookup::with_cached_query::<K, V, _>(key, cache_key, cb) called with
\* the (K, V) numbered shape, cb cloning the value as get_cached_query does
read_cached_query(cache_key, key, shape) ==
    IF type_mismatch(cache_key, shape)
    THEN mismatch_panicked("get_cached", cache_key, key)
    ELSE get_cached_query(cache_key, key)

\* ScopeLookup::with_cached_scope_mut::<K, V, _>(cache_key, default, cb) called
\* with the (K, V) numbered shape, default and cb those of set_inner
write_cached_scope(cache_key, key, new_value, shape) ==
    IF type_mismatch(cache_key, shape)
    THEN mismatch_panicked("set", cache_key, key)
    ELSE /\ counter < counter_max
         /\ scopes' = [set_inner_scopes(cache_key, key, new_value) EXCEPT ![cache_key].shape = shape]
         /\ timers' = set_inner_timers(cache_key, key)
         /\ signals' = set_inner_signals(cache_key, key)
         /\ counter' = counter + 1
         /\ last' = Op("set", cache_key, <<key>>, << >>, TRUE)
         /\ UNCHANGED <<now, options, scope_options, counter_max, locked, callers, calls>>

\* ScopeLookup::gc_query::<K, V>(cache_key, key) called with the (K, V)
\* numbered shape; the Query it removes is dropped with its handle
call_gc_query(cache_key, key, shape) ==
    IF type_mismatch(cache_key, shape)
    THEN mismatch_panicked("gc", cache_key, key)
    ELSE /\ scopes' = gc_query(cache_key, key)
         /\ timers' = GcHandle_cancel(timers,
                         IF HasQuery(cache_key, key)
                         THEN {CachedQuery(cache_key, key).gc_handle} ELSE {})
         /\ last' = Op("gc", cache_key, <<key>>, << >>, exists(cache_key, key))
         /\ UNCHANGED <<now, options, scope_options, counter_max, signals, counter,
                        locked, callers, calls>>

\* time passes
Tick ==
    /\ now < MaxTime
    /\ now' = now + 1
    /\ UNCHANGED <<options, scope_options, counter_max, scopes, timers, signals, counter,
                   locked, callers, calls, last>>

\* the options object a builder call works on: that of the client (target 0)
\* or that of a query type
OptionsOf(target) == IF target = 0 THEN options ELSE scope_options[target][1]

\* the object the builder call returned takes the place of the one it was
\* called on; QueryOptions is Copy, so after a panic the caller's object is
\* as it was
built(target, result, op, arg) ==
    /\ IF result.panicked
       THEN UNCHANGED <<options, scope_options>>
       ELSE IF target = 0
            THEN options' = result.self /\ UNCHANGED scope_options
            ELSE /\ scope_options' = [scope_options EXCEPT ![target] = SomeOptions(result.self)]
                 /\ UNCHANGED options
    /\ last' = Op(op, target, << >>, <<arg>>, ~result.panicked)
    /\ UNCHANGED <<now, counter_max, scopes, timers, signals, counter, locked, callers, calls>>

\* options = options.set_stale_time(d) on the client's or a query type's object
build_stale_time(target, d) ==
    /\ target # 0 => scope_options[target] # NoOptions
    /\ built(target, set_stale_time(OptionsOf(target), d), "set_stale_time", d)

\* options = options.set_gc_time(d) on the client's or a query type's object
build_gc_time(target, d) ==
    /\ target # 0 => scope_options[target] # NoOptions
    /\ built(target, set_gc_time(OptionsOf(target), d), "set_gc_time", d)

\* options_combine(client.options(), scope_options) as Query::new calls it,
\* and the effective times read through stale_time() and gc_time(); ret is
\* the combined object, seen the effective times
combine(cache_key) ==
    LET combined_options == options_combine(options, scope_options[cache_key])
    IN /\ last' = [Op("combine", cache_key, << >>,
                      <<combined_options.stale_time, combined_options.gc_time>>, FALSE)
                   EXCEPT !.seen = << <<stale_time(combined_options),
                                        gc_time(combined_options)>> >>]
       /\ UNCHANGED <<now, options, scope_options, counter_max, scopes, timers, signals,
                      counter, locked, callers, calls>>

\* ------------------------------------------------------------ specification
\* the options a query type is registered with (QueryScope::new(query, options))
\* one is stale after 1 and collected after 2, the other is stale at once and
\* never collected
ScopeOptionChoices ==
    {SomeOptions(QueryOptions(1, 2)), SomeOptions(QueryOptions(0, GcNeverThreshold))}

\* no call has returned yet
NoReturn == Op("none", 0, << >>, << >>, FALSE)

\* a client created by QueryClient::new(): empty registry, default options
InitClient ==
    /\ now = 0
    /\ options = QueryOptions_default
    /\ scopes = EmptyMap
    /\ timers = {}
    /\ signals = EmptyMap
    /\ counter = 0
    /\ counter_max = MaxCounter
    /\ locked = {}
    /\ callers = [p \in Callers |-> IdleCaller]
    /\ calls = [t \in TypeIds |-> [k \in Keys |-> 0]]
    /\ last = NoReturn
    /\ results = [p \in Callers |-> NoReturn]

Init ==
    /\ InitClient
    /\ scope_options \in [TypeIds -> ScopeOptionChoices]

\* the key lists invalidate_queries is called with
KeyLists == UNION {Orders(S) : S \in (SUBSET Keys) \ {{}}}

\* the entries of one scope
ScopeEntries(cache_key) ==
    IF cache_key \in DOMAIN scopes
    THEN {<<cache_key, k>> : k \in DOMAIN scopes[cache_key].cache}
    ELSE {}

\* the observer of SpecRace stays as it is
Quiet == UNCHANGED results

\* every operation of the client, the timers and the clock
Next ==
    \/ \E p \in Callers, t \in TypeIds, k \in Keys : fetch_query(p, t, k) /\ Quiet
    \/ \E p \in Callers, t \in TypeIds, k \in Keys : prefetch_query(p, t, k) /\ Quiet
    \/ \E p \in Callers : lock_acquired(p) /\ Quiet
    \/ \E p \in Callers, v \in Values : fetch_complete(p, v) /\ Quiet
    \/ \E t \in TypeIds, k \in Keys, v \in Values : set_query(t, k, v) /\ Quiet
    \/ \E t \in TypeIds, k \in Keys, left \in Values \cup {None} :
          update_query(t, k, left) /\ Quiet
    \/ \E t \in TypeIds, k \in Keys : get_cached_query(t, k) /\ Quiet
    \/ \E t \in TypeIds, k \in Keys : query_exists(t, k) /\ Quiet
    \/ \E t \in TypeIds, k \in Keys : invalidate_query(t, k) /\ Quiet
    \/ \E t \in TypeIds, ks \in KeyLists : invalidate_queries(t, ks) /\ Quiet
    \/ \E t \in TypeIds : \E order \in Orders(ScopeEntries(t)) :
          invalidate_query_type(t, order) /\ Quiet
    \/ \E order \in Orders(AllEntries) : invalidate_all_queries(order) /\ Quiet
    \/ \E tm \in timers : gc_fire(tm) /\ Quiet
    \/ Tick /\ Quiet

Spec == Init /\ [][Next]_vars

\* the observer: results keeps what the call of caller p returned
Observe(p) ==
    results' = [results EXCEPT ![p] = IF callers'[p].pc = "idle" THEN last' ELSE @]

\* one of N fetch calls issued at the same instant on a new client
race_fetch(p, cache_key, key) ==
    /\ now = 0
    /\ callers[p].pc = "idle"
    /\ results[p] = NoReturn
    /\ fetch_query(p, cache_key, key)
    /\ Observe(p)

InitRace ==
    /\ InitClient
    /\ scope_options \in [TypeIds -> ScopeOptionChoices]

\* the N calls and what follows from them: lock hand-over, fetcher results,
\* the clock and the timers
NextRace ==
    \/ \E p \in Callers, t \in TypeIds, k \in Keys : race_fetch(p, t, k)
    \/ \E p \in Callers : lock_acquired(p) /\ Observe(p)
    \/ \E p \in Callers, v \in Values : fetch_complete(p, v) /\ Observe(p)
    \/ \E tm \in timers : gc_fire(tm) /\ Quiet
    \/ Tick /\ Quiet

SpecRace == InitRace /\ [][NextRace]_vars

\* fetches and prefetches whose futures may be dropped before they complete,
\* with set to populate entries, the timers and the clock
NextAbandon ==
    \/ \E p \in Callers, t \in TypeIds, k \in Keys : fetch_query(p, t, k) /\ Quiet
    \/ \E p \in Callers, t \in TypeIds, k \in Keys : prefetch_query(p, t, k) /\ Quiet
    \/ \E p \in Callers : lock_acquired(p) /\ Quiet
    \/ \E p \in Callers, v \in Values : fetch_complete(p, v) /\ Quiet
    \/ \E p \in Callers : fetch_abandon(p) /\ Quiet
    \/ \E t \in TypeIds, k \in Keys, v \in Values : set_query(t, k, v) /\ Quiet
    \/ \E tm \in timers : gc_fire(tm) /\ Quiet
    \/ Tick /\ Quiet

SpecAbandon == Init /\ [][NextAbandon]_vars

\* the synchronous operations over several query types and keys
SyncTypes == 1..NumSyncTypes
SyncKeys == 1..NumSyncKeys
SyncValues == 1..NumSyncValues

\* the key lists invalidate_queries is called with here: any order, keys
\* without an entry, the same key twice, no key at all
SyncKeyLists == UNION {[1..n -> SyncKeys] : n \in 0..2}

\* a client created by QueryClient::new(), used through set and the
\* invalidate operations only
InitSync ==
    /\ now = 0
    /\ options = QueryOptions_default
    /\ scope_options = [t \in SyncTypes |-> SomeOptions(QueryOptions(1, 2))]
    /\ scopes = EmptyMap
    /\ timers = {}
    /\ signals = EmptyMap
    /\ counter = 0
    /\ counter_max = MaxSyncCounter
    /\ locked = {}
    /\ callers = [p \in Callers |-> IdleCaller]
    /\ calls = [t \in SyncTypes |-> [k \in SyncKeys |-> 0]]
    /\ last = NoReturn
    /\ results = [p \in Callers |-> NoReturn]

NextSync ==
    \/ \E t \in SyncTypes, k \in SyncKeys, v \in SyncValues : set_query(t, k, v) /\ Quiet
    \/ \E t \in SyncTypes, k \in SyncKeys : invalidate_query(t, k) /\ Quiet
    \/ \E t \in SyncTypes, ks \in SyncKeyLists : invalidate_queries(t, ks) /\ Quiet
    \/ \E t \in SyncTypes : \E order \in Orders(ScopeEntries(t)) :
          invalidate_query_type(t, order) /\ Quiet
    \/ \E order \in Orders(AllEntries) : invalidate_all_queries(order) /\ Quiet

SpecSync == InitSync /\ [][NextSync]_vars

\* the observer of SpecOverwrite: a call that begins has seen no invalidation
ObserveBegin(p) == results' = [results EXCEPT ![p] = NoReturn]

\* the observer of SpecOverwrite: results keeps, for every call that is
\* waiting or fetching on a key, the invalidation that hit the key's entry
\* since the call began
ObserveInvalidation ==
    results' = [p \in Callers |->
                   IF /\ callers[p].pc # "idle"
                      /\ callers[p].cache_key = last'.cache_key
                      /\ <<callers[p].key>> = last'.keys
                      /\ last'.ok
                   THEN last'
                   ELSE results[p]]

\* fetches that run while the entry of their key is set and invalidated, the
\* timers and the clock
NextOverwrite ==
    \/ \E p \in Callers, t \in TypeIds, k \in Keys : fetch_query(p, t, k) /\ ObserveBegin(p)
    \/ \E p \in Callers : lock_acquired(p) /\ Quiet
    \/ \E p \in Callers, v \in Values : fetch_complete(p, v) /\ Quiet
    \/ \E t \in TypeIds, k \in Keys, v \in Values : set_query(t, k, v) /\ Quiet
    \/ \E t \in TypeIds, k \in Keys : invalidate_query(t, k) /\ ObserveInvalidation
    \/ \E tm \in timers : gc_fire(tm) /\ Quiet
    \/ Tick /\ Quiet

SpecOverwrite == Init /\ [][NextOverwrite]_vars

\* options objects made by QueryOptions::new() and the setters, and combined
InitOptions ==
    /\ InitClient
    /\ scope_options \in [TypeIds -> {NoOptions, SomeOptions(QueryOptions_default)}]

NextOptions ==
    \/ \E target \in {0} \cup TypeIds, d \in Durations : build_stale_time(target, d) /\ Quiet
    \/ \E target \in {0} \cup TypeIds, d \in Durations : build_gc_time(target, d) /\ Quiet
    \/ \E t \in TypeIds : combine(t) /\ Quiet

SpecOptions == InitOptions /\ [][NextOptions]_vars

\* the options of a query type whose entries are to stay: never collected
\* (gc_time Duration::MAX or one year), never stale (stale_time Duration::MAX),
\* and for comparison one that is stale after 1 and collected after 2
ForeverChoices ==
    {SomeOptions(set_gc_time(set_stale_time(QueryOptions_default, 1).self, Duration_MAX).self),
     SomeOptions(set_gc_time(set_stale_time(QueryOptions_default, 1).self, GcNeverThreshold).self),
     SomeOptions(set_gc_time(set_stale_time(QueryOptions_default, Duration_MAX).self, Duration_MAX).self),
     SomeOptions(set_gc_time(set_stale_time(QueryOptions_default, 1).self, 2).self)}

InitForever ==
    /\ InitClient
    /\ scope_options \in [TypeIds -> ForeverChoices]

\* a client whose query types are configured with Duration::MAX
NextForever ==
    \/ \E p \in Callers, t \in TypeIds, k \in Keys : fetch_query(p, t, k) /\ Quiet
    \/ \E p \in Callers : lock_acquired(p) /\ Quiet
    \/ \E p \in Callers, v \in Values : fetch_complete(p, v) /\ Quiet
    \/ \E t \in TypeIds, k \in Keys, v \in Values : set_query(t, k, v) /\ Quiet
    \/ \E t \in TypeIds, k \in Keys : invalidate_query(t, k) /\ Quiet
    \/ \E tm \in timers : gc_fire(tm) /\ Quiet
    \/ Tick /\ Quiet

SpecForever == InitForever /\ [][NextForever]_vars

\* the upstream fetcher of test_key_integrity: its result is a function of
\* the key
fetcher(key) == key * 2

\* the options of the query type in the runs over several keys: the defaults,
\* as in test_key_integrity, or stale after 1 and collected after 2
KeysChoices == {SomeOptions(QueryOptions_default), SomeOptions(QueryOptions(1, 2))}

InitKeys ==
    /\ now = 0
    /\ options = QueryOptions_default
    /\ scope_options \in [TypeIds -> KeysChoices]
    /\ scopes = EmptyMap
    /\ timers = {}
    /\ signals = EmptyMap
    /\ counter = 0
    /\ counter_max = MaxCounter
    /\ locked = {}
    /\ callers = [p \in Callers |-> IdleCaller]
    /\ calls = [t \in TypeIds |-> [k \in SyncKeys |-> 0]]
    /\ last = NoReturn
    /\ results = [p \in Callers |-> NoReturn]

\* a fetch of a key no other running call is on: the calls that run at the
\* same time are all on different keys
fetch_distinct(p, cache_key, key) ==
    /\ \A q \in Callers :
          callers[q].pc # "idle" => callers[q].cache_key # cache_key \/ callers[q].key # key
    /\ fetch_query(p, cache_key, key)
    /\ Observe(p)

\* fetches of different keys of one query type running side by side and
\* again, each served by the fetcher with the result for its key
NextKeys ==
    \/ \E p \in Callers, t \in TypeIds, k \in SyncKeys : fetch_distinct(p, t, k)
    \/ \E p \in Callers : fetch_complete(p, fetcher(callers[p].key)) /\ Observe(p)
    \/ \E tm \in timers : gc_fire(tm) /\ Quiet
    \/ Tick /\ Quiet

SpecKeys == InitKeys /\ [][NextKeys]_vars

\* the observer of SpecResource: results keeps the signal the call of caller
\* p gave to cached_or_fetch as custom_next_buster
ObserveSupplied(p) ==
    results' = [results EXCEPT ![p] =
                   IF callers'[p].pc = "idle"
                   THEN NoReturn
                   ELSE Op("supplied", callers[p].cache_key, <<callers[p].key>>,
                           <<callers[p].custom_next_buster>>, FALSE)]

\* resources and fetches on the same keys: calls of cached_or_fetch with and
\* without a custom_next_buster, entries that lapse while a call waits
NextResource ==
    \/ \E p \in Callers, t \in TypeIds, k \in Keys : resource_new(p, t, k) /\ Quiet
    \/ \E p \in Callers : resource_fetcher(p) /\ ObserveSupplied(p)
    \/ \E p \in Callers, t \in TypeIds, k \in Keys : fetch_query(p, t, k) /\ ObserveBegin(p)
    \/ \E p \in Callers, t \in TypeIds, k \in Keys : prefetch_query(p, t, k) /\ ObserveBegin(p)
    \/ \E p \in Callers : lock_acquired(p) /\ Quiet
    \/ \E p \in Callers, v \in Values : fetch_complete(p, v) /\ Quiet
    \/ \E t \in TypeIds, k \in Keys : invalidate_query(t, k) /\ Quiet
    \/ \E tm \in timers : gc_fire(tm) /\ Quiet
    \/ Tick /\ Quiet

SpecResource == Init /\ [][NextResource]_vars

\* a client whose entries, of several keys and query types, are set, deleted
\* and collected by their timers
NextGc ==
    \/ \E t \in SyncTypes, k \in SyncKeys, v \in SyncValues : set_query(t, k, v) /\ Quiet
    \/ \E t \in SyncTypes, k \in SyncKeys : update_query(t, k, None) /\ Quiet
    \/ \E tm \in timers : gc_fire(tm) /\ Quiet
    \/ Tick /\ Quiet

SpecGc == InitSync /\ [][NextGc]_vars

\* the observer of SpecStamp: results keeps, for the write that has just run,
\* whether the entry it wrote to was there and invalidated (updated_at None)
ObserveWrite(cache_key, key) ==
    results' = [p \in Callers |->
                   IF HasQuery(cache_key, key) /\ CachedQuery(cache_key, key).updated_at = None
                   THEN Op("invalidated", cache_key, <<key>>, << >>, TRUE)
                   ELSE NoReturn]

\* every way an entry is written (fetch, prefetch, set, update) and
\* invalidated, the timers and the clock
NextStamp ==
    \/ \E p \in Callers, t \in TypeIds, k \in Keys : fetch_query(p, t, k) /\ Quiet
    \/ \E p \in Callers, t \in TypeIds, k \in Keys : prefetch_query(p, t, k) /\ Quiet
    \/ \E p \in Callers : lock_acquired(p) /\ Quiet
    \/ \E p \in Callers, v \in Values :
          fetch_complete(p, v) /\ ObserveWrite(callers[p].cache_key, callers[p].key)
    \/ \E t \in TypeIds, k \in Keys, v \in Values : set_query(t, k, v) /\ ObserveWrite(t, k)
    \/ \E t \in TypeIds, k \in Keys, left \in Values \cup {None} :
          update_query(t, k, left) /\ ObserveWrite(t, k)
    \/ \E t \in TypeIds, k \in Keys : invalidate_query(t, k) /\ Quiet
    \/ \E tm \in timers : gc_fire(tm) /\ Quiet
    \/ Tick /\ Quiet

SpecStamp == Init /\ [][NextStamp]_vars

\* fetches that wait for the lock or for their fetcher while the synchronous
\* operations of the client take the registry
NextGuard ==
    \/ \E p \in Callers, t \in TypeIds, k \in Keys : fetch_query(p, t, k) /\ Quiet
    \/ \E p \in Callers : lock_acquired(p) /\ Quiet
    \/ \E p \in Callers, v \in Values : fetch_complete(p, v) /\ Quiet
    \/ \E t \in TypeIds, k \in Keys :
          registry_access(get_cached_query(t, k)) /\ Quiet
    \/ \E t \in TypeIds, k \in Keys, v \in Values :
          registry_access(set_query(t, k, v)) /\ Quiet
    \/ \E t \in TypeIds, k \in Keys, left \in Values \cup {None} :
          registry_access(update_query(t, k, left)) /\ Quiet
    \/ \E t \in TypeIds, k \in Keys :
          registry_access(invalidate_query(t, k)) /\ Quiet
    \/ \E tm \in timers : gc_fire(tm) /\ Quiet
    \/ Tick /\ Quiet

SpecGuard == Init /\ [][NextGuard]_vars

\* the four typed access paths of ScopeLookup, called for a query type with
\* its own (K, V) and with another one
NextShape ==
    \/ \E t \in TypeIds, k \in Keys, shape \in Shapes :
          lookup_fetcher_mutex(t, k, shape) /\ Quiet
    \/ \E t \in TypeIds, k \in Keys, shape \in Shapes :
          read_cached_query(t, k, shape) /\ Quiet
    \/ \E t \in TypeIds, k \in Keys, v \in Values, shape \in Shapes :
          write_cached_scope(t, k, v, shape) /\ Quiet
    \/ \E t \in TypeIds, k \in Keys, shape \in Shapes :
          call_gc_query(t, k, shape) /\ Quiet

SpecShape == Init /\ [][NextShape]_vars

\* the run issues an operation that draws from COUNTER only while enough of
\* COUNTER's range in the run is left for every suspended call to complete
within_budget == counter + Cardinality(Suspended) < counter_max

\* fetches and prefetches of a key whose entry is invalidated and lapses
NextLive ==
    \/ \E p \in Callers, t \in TypeIds, k \in Keys :
          within_budget /\ fetch_query(p, t, k) /\ Quiet
    \/ \E p \in Callers, t \in TypeIds, k \in Keys :
          within_budget /\ prefetch_query(p, t, k) /\ Quiet
    \/ \E p \in Callers : lock_acquired(p) /\ Quiet
    \/ \E p \in Callers, v \in Values : fetch_complete(p, v) /\ Quiet
    \/ \E t \in TypeIds, k \in Keys : within_budget /\ invalidate_query(t, k) /\ Quiet
    \/ \E tm \in timers : gc_fire(tm) /\ Quiet
    \/ Tick /\ Quiet

\* every upstream fetcher invocation terminates (the call resumes after
\* fetcher(key).await), and a call waiting in fetcher_mutex.lock().await is
\* woken and polled once the mutex is free (futures::lock::Mutex wakes a
\* waiter on unlock)
Fairness ==
    \A p \in Callers :
        /\ WF_vars(\E v \in Values : fetch_complete(p, v) /\ Quiet)
        /\ WF_vars(lock_acquired(p) /\ Quiet)

SpecLive == Init /\ [][NextLive]_vars /\ Fairness

\* the observer of SpecWrite: results keeps, for every call whose fetcher is
\* running on a key, the set or update of that key that ran since the call
\* began
ObserveWriteInFlight ==
    results' = [p \in Callers |->
                   IF /\ callers[p].pc = "fetching"
                      /\ callers[p].cache_key = last'.cache_key
                      /\ <<callers[p].key>> = last'.keys
                   THEN last'
                   ELSE results[p]]

\* fetches of a key that is set, updated and read while they run
NextWrite ==
    \/ \E p \in Callers, t \in TypeIds, k \in Keys : fetch_query(p, t, k) /\ ObserveBegin(p)
    \/ \E p \in Callers : lock_acquired(p) /\ Quiet
    \/ \E p \in Callers, v \in Values : fetch_complete(p, v) /\ Quiet
    \/ \E t \in TypeIds, k \in Keys, v \in Values : set_query(t, k, v) /\ ObserveWriteInFlight
    \/ \E t \in TypeIds, k \in Keys, left \in Values \cup {None} :
          update_query(t, k, left) /\ ObserveWriteInFlight
    \/ \E tm \in timers : gc_fire(tm) /\ Quiet
    \/ Tick /\ Quiet

SpecWrite == Init /\ [][NextWrite]_vars

\* ------------------------------------------------------------------- claims
\* the calls whose upstream fetcher invocation for (cache_key, key) is running
InFlight(cache_key, key) ==
    {p \in Callers : callers[p].pc = "fetching" /\ callers[p].cache_key = cache_key
                     /\ callers[p].key = key}

\* C2: in every reachable state at most one upstream fetcher invocation is in
\* flight for a given (query type, key)
C2_OneFetchInFlight ==
    \A t \in TypeIds, k \in Keys : Cardinality(InFlight(t, k)) <= 1

\* the callers whose fetch of (cache_key, key) has returned
Returned(cache_key, key) ==
    {p \in Callers : results[p].op = "fetch" /\ results[p].cache_key = cache_key
                     /\ results[p].keys = <<key>>}

\* C1 as stated: N concurrent fetch calls for a key without an entry cause
\* exactly one upstream invocation and all callers receive the same value
C1_Original ==
    \A t \in TypeIds, k \in Keys :
        /\ calls[t][k] <= 1
        /\ \A p, q \in Returned(t, k) : results[p].ret = results[q].ret

\* a caller that waited for the lock and then found the entry gone or stale
FoundLapsed(p) ==
    results[p].via = "refetched" \/ (callers[p].pc = "fetching" /\ callers[p].contended)

\* C1 amended: N fetch calls issued together for a key without an entry cause
\* one upstream invocation and all callers receive the same value, provided
\* every caller that waited for the lock found the entry present and not stale
C1_RaceOneFetch ==
    \A t \in TypeIds, k \in Keys :
        (\A p \in Callers : ~FoundLapsed(p))
        => /\ calls[t][k] <= 1
           /\ \A p, q \in Returned(t, k) : results[p].ret = results[q].ret

\* C1 witness: every caller has returned from fetch on the same key, one of
\* them fetched, the others were served after waiting, one upstream call
C1_Witness ==
    \E t \in TypeIds, k \in Keys :
        /\ Returned(t, k) = Callers
        /\ calls[t][k] = 1
        /\ \E p \in Callers : results[p].via = "fetched"
        /\ \A p \in Callers : results[p].via \in {"fetched", "waited"}
        /\ \E p \in Callers : results[p].via = "waited"

\* the calls that are waiting for the lock or fetching for (cache_key, key)
Active(cache_key, key) ==
    {p \in Callers : callers[p].pc # "idle" /\ callers[p].cache_key = cache_key
                     /\ callers[p].key = key}

C4_SetThenGetCached ==
    [][\A t \in TypeIds, k \in Keys, v \in Values :
          set_query(t, k, v) => get_cached(t, k)' = v]_vars

\* C4 witness: set has just overwritten an existing entry while a fetch of
\* the same key is in flight, and the value is readable
C4_Witness ==
    \E t \in TypeIds, k \in Keys :
        /\ last.op = "set" /\ last.cache_key = t /\ last.keys = <<k>>
        /\ counter >= 2
        /\ InFlight(t, k) # {}
        /\ get_cached(t, k) \in Values

FetchReturns(cache_key, key) ==
    \/ \E p \in Callers : fetch_query(p, cache_key, key) /\ callers'[p].pc = "idle"
    \/ \E p \in Callers :
          /\ callers[p].op = "fetch"
          /\ callers[p].cache_key = cache_key /\ callers[p].key = key
          /\ callers'[p].pc = "idle"
          /\ lock_acquired(p) \/ \E v \in Values : fetch_complete(p, v)

\* C6: whenever a fetch returns, on the uncontended or the contended path,
\* the value is either that of an entry that is not stale at that moment, or
\* the value this call has just fetched and written as the entry; it is never
\* the value of an entry that was stale
C6_FetchReturnsCurrent ==
    [][\A t \in TypeIds, k \in Keys :
          FetchReturns(t, k)
          => /\ last'.op = "fetch" /\ last'.cache_key = t /\ last'.keys = <<k>>
             /\ IF last'.via \in {"cached", "waited"}
                THEN /\ HasQuery(t, k)
                     /\ ~Query_stale(CachedQuery(t, k))
                     /\ last'.ret = <<CachedQuery(t, k).value>>
                ELSE /\ last'.via \in {"fetched", "refetched"}
                     /\ \E p \in InFlight(t, k) : callers'[p].pc = "idle"
                     /\ last'.ret = <<get_cached(t, k)'>>
                     /\ CachedQuery(t, k)'.updated_at = now]_vars

\* C6 witness: a caller that waited for the lock while the entry was stale
\* has been served the value the lock holder fetched, not the stale one
C6_Witness ==
    \E t \in TypeIds, k \in Keys :
        /\ last.op = "fetch" /\ last.via = "waited"
        /\ last.cache_key = t /\ last.keys = <<k>>
        /\ calls[t][k] = 2
        /\ HasQuery(t, k) /\ ~Query_stale(CachedQuery(t, k))
        /\ last.ret = <<get_cached(t, k)>>

\* C7: stale() is true exactly when the entry has no timestamp or
\* now > timestamp + stale_time, so it is false at every time up to and
\* including timestamp + stale_time
C7_StaleExactlyAfterDeadline ==
    \A t \in TypeIds, k \in Keys :
        HasQuery(t, k)
        => LET q == CachedQuery(t, k)
               ts == q.updated_at
               st == stale_time(q.combined_options)
           IN /\ Query_stale(q) <=> (ts = None \/ now > ts + st)
              /\ (ts # None /\ now <= ts + st) => ~Query_stale(q)

\* C7 witness: an entry with a positive stale_time at the very instant
\* timestamp + stale_time, not stale
C7_Witness ==
    \E t \in TypeIds, k \in Keys :
        /\ HasQuery(t, k)
        /\ CachedQuery(t, k).updated_at # None
        /\ stale_time(CachedQuery(t, k).combined_options) > 0
        /\ now = CachedQuery(t, k).updated_at + stale_time(CachedQuery(t, k).combined_options)
        /\ ~Query_stale(CachedQuery(t, k))

\* the timeouts armed for (cache_key, key)
KeyTimers(cache_key, key) ==
    {tm \in timers : tm.cache_key = cache_key /\ tm.key = key}

\* C8: an entry whose gc_time is below the never-collect threshold always has
\* its timeout armed with that gc_time, and once the timeout fires
\* get_cached(k) is None and exists(k) is false
C8_EvictedWhenTimerFires ==
    /\ [](\A t \in TypeIds, k \in Keys :
            (HasQuery(t, k) /\ Query_gc_cb(CachedQuery(t, k).combined_options))
            => \E tm \in KeyTimers(t, k) :
                  /\ tm.id = CachedQuery(t, k).gc_handle
                  /\ tm.duration = gc_time(CachedQuery(t, k).combined_options))
    /\ [][\A tm \in timers :
            gc_fire(tm) => /\ get_cached(tm.cache_key, tm.key)' = None
                           /\ ~exists(tm.cache_key, tm.key)']_vars

\* C8 witness: the timeout of an entry populated at time 0 and then left
\* alone has fired and removed it
C8_Witness ==
    \E t \in TypeIds, k \in Keys :
        /\ last.op = "gc" /\ last.cache_key = t /\ last.keys = <<k>> /\ last.ok
        /\ counter = 1
        /\ get_cached(t, k) = None /\ ~exists(t, k)

\* C9: an entry that was read (get_cached with a hit, or a fetch served from
\* the cache) before gc_time had elapsed since its last population is not
\* evicted at the deadline computed from that population
C9_ReadPreventsEviction ==
    [][\A tm \in timers :
          (/\ gc_fire(tm)
           /\ last.op = "get_cached" \/ (last.op = "fetch" /\ last.via = "cached")
           /\ last.cache_key = tm.cache_key /\ last.keys = <<tm.key>>
           /\ last.ret # << >>
           /\ last.at < tm.armed_at + tm.duration)
          => exists(tm.cache_key, tm.key)']_vars

\* a value is written under (cache_key, key) in this step: by set, by an
\* update that leaves a value, or by a fetch that completes
Replaces(cache_key, key) ==
    \/ \E v \in Values : set_query(cache_key, key, v)
    \/ \E left \in Values : update_query(cache_key, key, left)
    \/ \E p \in Callers, v \in Values :
          /\ callers[p].cache_key = cache_key /\ callers[p].key = key
          /\ fetch_complete(p, v)

\* C10: every armed timeout is the one owned by the value now stored under
\* its key; every replacement of the value leaves only the timeout armed by
\* that replacement, for the entry's gc_time; and a timeout evicts no earlier
\* than gc_time after the replacement that armed it
C10_TimerBelongsToLatestValue ==
    /\ [](\A tm \in timers :
            /\ HasQuery(tm.cache_key, tm.key)
            /\ CachedQuery(tm.cache_key, tm.key).gc_handle = tm.id
            /\ KeyTimers(tm.cache_key, tm.key) = {tm})
    /\ [][\A t \in TypeIds, k \in Keys :
            /\ Replaces(t, k)
               => \A tm \in KeyTimers(t, k)' :
                     /\ tm.armed_at = now
                     /\ tm.id = CachedQuery(t, k)'.gc_handle
                     /\ tm.duration = gc_time(CachedQuery(t, k)'.combined_options)
            /\ \A tm \in KeyTimers(t, k) :
                  gc_fire(tm) => now >= tm.armed_at + tm.duration]_vars

\* C10 witness: a fetch wrote the entry, set replaced it at time 1; at time 2
\* the entry is there and only the timeout armed by set is armed
C10_Witness ==
    \E t \in TypeIds, k \in Keys :
        /\ now = 2
        /\ last.op = "set" /\ last.cache_key = t /\ last.keys = <<k>>
        /\ counter = 2 /\ calls[t][k] = 1 /\ Active(t, k) = {}
        /\ HasQuery(t, k) /\ CachedQuery(t, k).updated_at = 1
        /\ \E tm \in timers : KeyTimers(t, k) = {tm} /\ tm.armed_at = 1 /\ tm.duration = 2

\* C11: a prefetch(k) issued on an entry that exists and is already stale,
\* with no other call on k running, makes no upstream call and leaves the
\* registry as it is
C11_PrefetchSkipsStale ==
    [][\A p \in Callers, t \in TypeIds, k \in Keys :
          (/\ prefetch_query(p, t, k)
           /\ HasQuery(t, k) /\ Query_stale(CachedQuery(t, k))
           /\ Active(t, k) = {})
          => /\ calls' = calls
             /\ callers'[p].pc = "idle"
             /\ scopes' = scopes]_vars

C13_ReplaceNotifiesOldBuster ==
    [][\A p \in Callers, v \in Values, t \in TypeIds, k \in Keys :
          (/\ fetch_complete(p, v)
           /\ callers[p].cache_key = t /\ callers[p].key = k
           /\ HasQuery(t, k))
          => signals'[CachedQuery(t, k).buster] # signals[CachedQuery(t, k).buster]]_vars

C15_AbandonReleasesLockWritesNothing ==
    [][\A p \in Callers :
          fetch_abandon(p)
          => /\ callers[p].pc = "fetching" => callers[p].mutex \notin locked'
             /\ \A q \in Callers : callers'[q].pc = "fetching" => callers'[q].mutex \in locked'
             /\ scopes' = scopes
             /\ timers' = timers
             /\ signals' = signals /\ counter' = counter]_vars

\* C15 witness: a call that was fetching over an existing entry was dropped;
\* the lock is free and the entry is still there
C15_Witness ==
    \E t \in TypeIds, k \in Keys :
        /\ last.op = "abandon" /\ last.ok
        /\ last.cache_key = t /\ last.keys = <<k>>
        /\ locked = {}
        /\ HasQuery(t, k) /\ Query_stale(CachedQuery(t, k))
        /\ KeyTimers(t, k) # {}

\* C16: update(k, modifier) on an existing entry whose modifier leaves None
\* removes the entry (exists(k) is false, get_cached(k) is None) and leaves
\* no timeout armed for the key
C16_UpdateNoneRemoves ==
    [][\A t \in TypeIds, k \in Keys :
          (update_query(t, k, None) /\ HasQuery(t, k))
          => /\ ~exists(t, k)'
             /\ get_cached(t, k)' = None
             /\ KeyTimers(t, k)' = {}
             /\ \A tm \in timers' : tm.id # CachedQuery(t, k).gc_handle]_vars

\* C16 witness: update has removed an entry of a query type whose entries are
\* collected; the modifier was given its value, the entry and its timeout
\* are gone
C16_Witness ==
    \E t \in TypeIds, k \in Keys :
        /\ last.op = "update" /\ last.cache_key = t /\ last.keys = <<k>>
        /\ last.ret # << >> /\ last.seen = << << >> >>
        /\ Query_gc_cb(options_combine(options, scope_options[t]))
        /\ ~exists(t, k) /\ KeyTimers(t, k) = {}

\* C17: update(k, modifier) gives the modifier Some(current value) if an entry
\* exists and None otherwise, returns what the modifier returns (here: what
\* it was given), and afterwards get_cached(k) is the option the modifier
\* left: Some(v) replaces or creates the entry, None on a missing entry
\* changes nothing
C17_UpdateAppliesModifier ==
    [][\A t \in TypeIds, k \in Keys, left \in Values \cup {None} :
          update_query(t, k, left)
          => /\ last'.ret = ValueIn(scopes, t, k)
             /\ get_cached(t, k)' = left
             /\ (left # None) => CachedQuery(t, k)'.updated_at = now
             /\ (left = None /\ ~HasQuery(t, k))
                => scopes' = scopes /\ timers' = timers /\ signals' = signals]_vars

\* C17 witness: update on a missing entry, the modifier was given None and
\* left a value, and the entry now exists with that value
C17_Witness ==
    \E t \in TypeIds, k \in Keys :
        /\ last.op = "update" /\ last.cache_key = t /\ last.keys = <<k>>
        /\ last.ret = << >>
        /\ counter = 1 /\ calls[t][k] = 0
        /\ get_cached(t, k) \in Values

Invalidated(cache_key, key) ==
    /\ HasQuery(cache_key, key)'
    /\ CachedQuery(cache_key, key)'.value = CachedQuery(cache_key, key).value
    /\ CachedQuery(cache_key, key)'.buster = CachedQuery(cache_key, key).buster
    /\ CachedQuery(cache_key, key)'.gc_handle = CachedQuery(cache_key, key).gc_handle
    /\ Query_stale(CachedQuery(cache_key, key))'
    /\ signals'[CachedQuery(cache_key, key).buster] # signals[CachedQuery(cache_key, key).buster]

\* the entry under (cache_key, key), if any, is left as it is by this step
Untouched(cache_key, key) ==
    /\ HasQuery(cache_key, key)' <=> HasQuery(cache_key, key)
    /\ HasQuery(cache_key, key)
       => /\ CachedQuery(cache_key, key)' = CachedQuery(cache_key, key)
          /\ signals'[CachedQuery(cache_key, key).buster] = signals[CachedQuery(cache_key, key).buster]

\* C19: invalidate_many(type, keys) returns exactly the given keys that had an
\* entry, in the order given; each of those entries is stale afterwards and
\* its buster is set; a key without an entry is not returned and gets no
\* entry, no scope is created, other entries are left alone; invalidate_one
\* returns whether the key had an entry and changes nothing if it had none
C19_InvalidateManyReturnsExisting ==
    [][/\ \A t \in SyncTypes, ks \in SyncKeyLists :
            invalidate_queries(t, ks)
            => /\ last'.ret = SelectSeq(ks, LAMBDA k : exists(t, k))
               /\ \A i \in 1..Len(ks) :
                     IF exists(t, ks[i]) THEN Invalidated(t, ks[i]) ELSE ~exists(t, ks[i])'
               /\ \A u \in SyncTypes, j \in SyncKeys :
                     (u # t \/ \A i \in 1..Len(ks) : ks[i] # j) => Untouched(u, j)
               /\ DOMAIN scopes' = DOMAIN scopes
               /\ timers' = timers
       /\ \A t \in SyncTypes, k \in SyncKeys :
            invalidate_query(t, k)
            => /\ last'.ok <=> exists(t, k)
               /\ IF exists(t, k)
                  THEN Invalidated(t, k)
                  ELSE scopes' = scopes /\ signals' = signals /\ counter' = counter]_vars

\* C19 witness: invalidate_many was given two different keys of a type, one
\* with an entry and one without; it returned the one, which is stale, and
\* the other still has no entry
C19_Witness ==
    \E t \in SyncTypes :
        /\ last.op = "invalidate_many" /\ last.cache_key = t
        /\ Len(last.keys) = 2 /\ last.keys[1] # last.keys[2]
        /\ Len(last.ret) = 1
        /\ HasQuery(t, last.ret[1]) /\ Query_stale(CachedQuery(t, last.ret[1]))
        /\ \E i \in 1..2 : ~HasQuery(t, last.keys[i])

\* C20: invalidate_type(t) leaves every entry of scope t stale with its buster
\* set, and every entry of every other scope as it was; invalidate_all() does
\* so to every entry of every scope; neither removes an entry, changes a
\* value or touches a timeout
C20_InvalidateTypeAndAll ==
    [][/\ \A t \in SyncTypes :
            (\E order \in Orders(ScopeEntries(t)) : invalidate_query_type(t, order))
            => /\ \A k \in SyncKeys :
                     IF exists(t, k) THEN Invalidated(t, k) ELSE ~exists(t, k)'
               /\ \A u \in SyncTypes \ {t}, k \in SyncKeys : Untouched(u, k)
               /\ DOMAIN scopes' = DOMAIN scopes
               /\ timers' = timers
       /\ (\E order \in Orders(AllEntries) : invalidate_all_queries(order))
            => /\ \A t \in SyncTypes, k \in SyncKeys :
                     IF exists(t, k) THEN Invalidated(t, k) ELSE ~exists(t, k)'
               /\ DOMAIN scopes' = DOMAIN scopes
               /\ timers' = timers]_vars

\* C20 witness: invalidate_type has run on a scope with two entries while
\* another scope has an entry: the two are stale, the other is not
C20_Witness ==
    \E t \in SyncTypes : \E u \in SyncTypes \ {t} :
        /\ last.op = "invalidate_type" /\ last.cache_key = t
        /\ \A k \in SyncKeys : HasQuery(t, k) /\ Query_stale(CachedQuery(t, k))
        /\ \E k \in SyncKeys : HasQuery(u, k) /\ ~Query_stale(CachedQuery(u, k))

\* C21: when invalidate_one(k) has hit the entry of k while a fetch of k that
\* began earlier was waiting or fetching, the fetch still completes and writes
\* over the invalidation: after it the entry holds the fetched value, carries
\* the time of the write and is not stale
C21_FetchOverwritesInvalidation ==
    [][\A p \in Callers, v \in Values, t \in TypeIds, k \in Keys :
          (/\ fetch_complete(p, v)
           /\ callers[p].cache_key = t /\ callers[p].key = k
           /\ results[p].op = "invalidate_one")
          => /\ get_cached(t, k)' = v
             /\ CachedQuery(t, k)'.updated_at = now
             /\ ~Query_stale(CachedQuery(t, k))']_vars

\* C21 witness: the only upstream call on the key has completed after an
\* invalidation that hit the entry while the call was in flight; the entry
\* holds what the call returned and is not stale
C21_Witness ==
    \E t \in TypeIds, k \in Keys, p \in Callers :
        /\ last.op = "fetch" /\ last.via = "fetched"
        /\ last.cache_key = t /\ last.keys = <<k>>
        /\ calls[t][k] = 1 /\ Active(t, k) = {}
        /\ results[p].op = "invalidate_one" /\ results[p].ok
        /\ results[p].cache_key = t /\ results[p].keys = <<k>>
        /\ HasQuery(t, k) /\ ~Query_stale(CachedQuery(t, k))
        /\ last.ret = <<get_cached(t, k)>>

\* one field of combine(base, override): the override's value if set, else
\* the base's if set, else the default
Effective(base_field, override_field, default) ==
    IF override_field # None THEN override_field
    ELSE IF base_field # None THEN base_field
    ELSE default

\* C22: combine(base, override) yields, for stale_time and gc_time each on its
\* own, the override's value if set, else the base's if set, else the
\* default (10 and 300); with no override the result is the base
C22_CombinePerField ==
    [][\A t \in TypeIds :
          combine(t)
          => /\ scope_options[t] # NoOptions
                => last'.seen =
                     << <<Effective(options.stale_time, scope_options[t][1].stale_time, 10),
                          Effective(options.gc_time, scope_options[t][1].gc_time, 300)>> >>
             /\ scope_options[t] = NoOptions
                => /\ last'.ret = <<options.stale_time, options.gc_time>>
                   /\ last'.seen = << <<Effective(options.stale_time, None, 10),
                                        Effective(options.gc_time, None, 300)>> >>]_vars

\* C22 witness: a combination in which stale_time came from the override and
\* gc_time from the base, the two set to different values on both sides
C22_Witness ==
    \E t \in TypeIds :
        /\ last.op = "combine" /\ last.cache_key = t
        /\ scope_options[t] # NoOptions
        /\ scope_options[t][1].stale_time # None /\ options.stale_time # None
        /\ scope_options[t][1].stale_time # options.stale_time
        /\ scope_options[t][1].gc_time = None /\ options.gc_time # None
        /\ last.seen = << <<scope_options[t][1].stale_time, options.gc_time>> >>

\* the options objects made with QueryOptions::new() and the setters
BuiltOptions ==
    {options} \cup {scope_options[t][1] : t \in {u \in TypeIds : scope_options[u] # NoOptions}}

\* both fields are set and stale_time is above gc_time
Inverted(o) == o.stale_time # None /\ o.gc_time # None /\ o.stale_time > o.gc_time

\* C23: no options object made with the setters holds both fields with
\* stale_time > gc_time: a setter call fails exactly when its result would be
\* such an object, whichever setter it is, and leaves no object changed;
\* otherwise, also with stale_time = gc_time, it sets the field
C23_SettersRejectInverted ==
    /\ [](\A o \in BuiltOptions : ~Inverted(o))
    /\ [][\A target \in {0} \cup TypeIds, d \in Durations :
            /\ build_stale_time(target, d)
               => /\ last'.ok <=> ~Inverted([OptionsOf(target) EXCEPT !.stale_time = d])
                  /\ IF last'.ok
                     THEN OptionsOf(target)' = [OptionsOf(target) EXCEPT !.stale_time = d]
                     ELSE options' = options /\ scope_options' = scope_options
            /\ build_gc_time(target, d)
               => /\ last'.ok <=> ~Inverted([OptionsOf(target) EXCEPT !.gc_time = d])
                  /\ IF last'.ok
                     THEN OptionsOf(target)' = [OptionsOf(target) EXCEPT !.gc_time = d]
                     ELSE options' = options /\ scope_options' = scope_options]_vars

\* C23 witness: set_gc_time was called second, with a value below the
\* stale_time already set, and failed; the object holds no gc_time
C23_Witness ==
    /\ last.op = "set_gc_time" /\ ~last.ok /\ last.cache_key = 0
    /\ options.stale_time # None /\ options.stale_time > last.ret[1]
    /\ options.gc_time = None

\* C24: whenever a step removes the last entry of a scope, by a timeout
\* firing or by an update that deletes the entry, the scope is no longer in
\* the registry after the step: a removal leaves no scope with an empty
\* entry map registered
C24_LastEntryRemovalRemovesScope ==
    [][\A t \in TypeIds :
          (/\ t \in DOMAIN scopes /\ DOMAIN scopes[t].cache # {}
           /\ t \in DOMAIN scopes')
          => DOMAIN scopes'[t].cache # {}]_vars

\* C25: in every reachable state each (query type, key) has at most one armed
\* timeout, an armed timeout is the one the entry stored under its key owns,
\* and a key without an entry has no armed timeout
C25_OneTimerPerEntry ==
    \A t \in TypeIds, k \in Keys :
        /\ Cardinality(KeyTimers(t, k)) <= 1
        /\ \A tm \in KeyTimers(t, k) : HasQuery(t, k) /\ CachedQuery(t, k).gc_handle = tm.id
        /\ ~HasQuery(t, k) => KeyTimers(t, k) = {}
        /\ \A tm \in timers : tm.cache_key \in TypeIds /\ tm.key \in Keys

\* C25 witness: an entry written by set and then replaced twice, by set and
\* by update, at a later time: one timeout is armed, that of the last write
C25_Witness ==
    \E t \in TypeIds, k \in Keys :
        /\ last.op = "update" /\ last.cache_key = t /\ last.keys = <<k>>
        /\ counter = 3 /\ calls[t][k] = 0 /\ now = 1
        /\ HasQuery(t, k)
        /\ \E tm \in timers :
              /\ timers = {tm}
              /\ tm.id = CachedQuery(t, k).gc_handle /\ tm.armed_at = 1

\* C28: get_cached and exists return what the registry holds and change
\* nothing: no entry's value, timestamp, buster or timeout, no scope, entry or
\* fetcher mutex is created, no buster is set, no call is started
C28_ReadsArePure ==
    [][\A t \in TypeIds, k \in Keys :
          (get_cached_query(t, k) \/ query_exists(t, k))
          => /\ scopes' = scopes
             /\ timers' = timers
             /\ signals' = signals /\ counter' = counter
             /\ locked' = locked /\ callers' = callers /\ calls' = calls
             /\ last'.op = "get_cached" => last'.ret = ValueIn(scopes, t, k)
             /\ last'.op = "exists" => (last'.ok <=> ValueIn(scopes, t, k) # << >>)]_vars

\* C28 witness: get_cached missed on a query type that has no scope, and the
\* registry is still empty, after an entry had been written and collected
C28_Witness ==
    \E t \in TypeIds, k \in Keys :
        /\ last.op = "get_cached" /\ last.cache_key = t /\ last.keys = <<k>>
        /\ last.ret = << >>
        /\ counter >= 1
        /\ scopes = EmptyMap

\* the entry under (cache_key, key) has a gc_time of at least one year
NeverCollected(cache_key, key) ==
    /\ HasQuery(cache_key, key)
    /\ gc_time(CachedQuery(cache_key, key).combined_options) >= GcNeverThreshold

\* C26: an entry whose gc_time is Duration::MAX, or anything from one year
\* up, has the inert handle GcHandle::None and no armed timeout, and neither
\* the passing of time nor the firing of any timeout removes or changes it
C26_InfiniteGcNeverEvicted ==
    /\ [](\A t \in TypeIds, k \in Keys :
            NeverCollected(t, k)
            => /\ CachedQuery(t, k).gc_handle = GcHandle_None
               /\ KeyTimers(t, k) = {})
    /\ [][\A t \in TypeIds, k \in Keys :
            (NeverCollected(t, k) /\ (Tick \/ \E tm \in timers : gc_fire(tm)))
            => /\ HasQuery(t, k)'
               /\ CachedQuery(t, k)' = CachedQuery(t, k)]_vars

\* C26 witness: an entry with gc_time Duration::MAX written at time 0 is
\* still there, unchanged, when the clock has run as far as it goes
C26_Witness ==
    \E t \in TypeIds, k \in Keys :
        /\ now = MaxTime
        /\ HasQuery(t, k)
        /\ gc_time(CachedQuery(t, k).combined_options) = Duration_MAX
        /\ CachedQuery(t, k).updated_at = 0
        /\ counter = 1 /\ timers = {}

\* the entry under (cache_key, key) has a stale_time of Duration::MAX
NeverStale(cache_key, key) ==
    /\ HasQuery(cache_key, key)
    /\ stale_time(CachedQuery(cache_key, key).combined_options) = Duration_MAX

\* C27: on an entry whose stale_time is Duration::MAX, stale() never fails
\* and is false at every time for as long as the entry is not invalidated: a
\* fetch is served from the cache, a call that waited for the lock is served
\* what it finds; once the entry is invalidated, a fetch goes upstream
C27_MaxStaleTimeNeverStale ==
    [][\A p \in Callers, t \in TypeIds, k \in Keys :
          NeverStale(t, k)
          => /\ (fetch_query(p, t, k) /\ CachedQuery(t, k).updated_at # None)
                => last' = Return("fetch", t, k, CachedQuery(t, k).value, "cached")
             /\ (/\ lock_acquired(p)
                 /\ callers[p].cache_key = t /\ callers[p].key = k
                 /\ CachedQuery(t, k).updated_at # None)
                => last' = Return("fetch", t, k, CachedQuery(t, k).value, "waited")
             /\ (/\ fetch_query(p, t, k) /\ Active(t, k) = {}
                 /\ CachedQuery(t, k).updated_at = None)
                => callers'[p].pc = "fetching"]_vars

\* C29: when calls on different keys of one query type run side by side, a
\* fetch of a key without an entry goes straight to the fetcher (it does not
\* wait for the calls on other keys) with one upstream call for its key; when
\* it completes the caller gets the result for its own key, which is stored
\* under that key and no other; every entry holds the result for its key; and
\* a later fetch of a key whose entry is not stale returns that value with
\* no upstream call
C29_KeyIntegrity ==
    /\ [](\A t \in TypeIds, k \in SyncKeys : ValueIn(scopes, t, k) \in {<< >>, <<k * 2>>})
    /\ [][\A p \in Callers, t \in TypeIds, k \in SyncKeys :
            /\ (fetch_distinct(p, t, k) /\ ~HasQuery(t, k))
               => /\ callers'[p].pc = "fetching"
                  /\ calls' = [calls EXCEPT ![t][k] = @ + 1]
            /\ (/\ fetch_complete(p, fetcher(k))
                /\ callers[p].cache_key = t /\ callers[p].key = k)
               => /\ results'[p] = Return("fetch", t, k, k * 2, "fetched")
                  /\ ValueIn(scopes', t, k) = <<k * 2>>
                  /\ \A j \in SyncKeys \ {k} : ValueIn(scopes', t, j) = ValueIn(scopes, t, j)
            /\ (fetch_distinct(p, t, k) /\ HasQuery(t, k) /\ ~Query_stale(CachedQuery(t, k)))
               => /\ results'[p] = Return("fetch", t, k, k * 2, "cached")
                  /\ calls' = calls /\ scopes' = scopes]_vars

\* C29 witness: two keys were fetched side by side (the second call began
\* while the first was at the fetcher, and finished first), one upstream call
\* each, and the second round was served from the cache with each key's value
C29_Witness ==
    \E t \in TypeIds :
        /\ \A k \in SyncKeys : calls[t][k] = 1 /\ get_cached(t, k) = k * 2
        /\ \A p \in Callers : callers[p].pc = "idle" /\ results[p].via = "cached"
        /\ \A k \in SyncKeys : \E p \in Callers : results[p].keys = <<k>> /\ results[p].ret = <<k * 2>>
        /\ \E k \in SyncKeys : \E j \in SyncKeys \ {k} :
              /\ scopes[t].fetcher_mutexes[k] < scopes[t].fetcher_mutexes[j]
              /\ CachedQuery(t, k).buster > CachedQuery(t, j).buster

\* C30 as stated: the buster of an entry written by cached_or_fetch_inner is
\* the signal the caller supplied as custom_next_buster if it supplied one;
\* otherwise the buster of the stale entry found after waiting for the lock,
\* if one was found; otherwise a signal created by this call
C30_Original ==
    [][\A p \in Callers, v \in Values, t \in TypeIds, k \in Keys :
          (/\ fetch_complete(p, v)
           /\ callers[p].cache_key = t /\ callers[p].key = k)
          => IF results[p].op = "supplied"
             THEN CachedQuery(t, k)'.buster = results[p].ret[1]
             ELSE IF callers[p].using_stale_buster
                  THEN CachedQuery(t, k)'.buster = callers[p].custom_next_buster
                  ELSE CachedQuery(t, k)'.buster \notin DOMAIN signals]_vars

\* C30 amended: the buster of an entry written by cached_or_fetch_inner is
\* the buster of the stale entry found after waiting for the lock, if one was
\* found (it takes the place of a supplied one); otherwise the signal the
\* caller supplied as custom_next_buster, if it supplied one; otherwise a
\* signal created by this call
C30_BusterChoice ==
    [][\A p \in Callers, t \in TypeIds, k \in Keys :
          (callers[p].cache_key = t /\ callers[p].key = k)
          => /\ lock_acquired(p)
                => IF HasQuery(t, k) /\ Query_stale(CachedQuery(t, k))
                   THEN /\ callers'[p].using_stale_buster
                        /\ callers'[p].custom_next_buster = CachedQuery(t, k).buster
                   ELSE callers'[p].pc = "fetching"
                        => /\ ~callers'[p].using_stale_buster
                           /\ callers'[p].custom_next_buster = callers[p].custom_next_buster
             /\ \A v \in Values :
                   fetch_complete(p, v)
                   => IF callers[p].using_stale_buster
                      THEN CachedQuery(t, k)'.buster = callers[p].custom_next_buster
                      ELSE IF results[p].op = "supplied"
                           THEN CachedQuery(t, k)'.buster = results[p].ret[1]
                           ELSE CachedQuery(t, k)'.buster \notin DOMAIN signals]_vars

\* C30 witness: a resource supplied its own signal, waited for the lock,
\* found a stale entry and wrote its result with that entry's buster, not
\* with the signal it had supplied; the buster was rotated
C30_Witness ==
    \E t \in TypeIds, k \in Keys, p \in Callers :
        /\ last.op = "resource" /\ last.via = "refetched"
        /\ last.cache_key = t /\ last.keys = <<k>>
        /\ callers[p].pc = "idle"
        /\ results[p].op = "supplied" /\ results[p].cache_key = t /\ results[p].keys = <<k>>
        /\ \A q \in Callers \ {p} : results[q].op # "supplied"
        /\ HasQuery(t, k)
        /\ CachedQuery(t, k).buster # results[p].ret[1]
        /\ signals[CachedQuery(t, k).buster] = counter - 1

\* C31: a fetcher mutex registered for a (query type, key) stays registered,
\* the same mutex, through every step: also through the eviction or deletion
\* of the key's entry or of other entries of the scope
C31_LockNeverRemoved ==
    [][\A t \in TypeIds, k \in Keys :
          (t \in DOMAIN scopes /\ k \in DOMAIN scopes[t].fetcher_mutexes)
          => /\ t \in DOMAIN scopes'
             /\ k \in DOMAIN scopes'[t].fetcher_mutexes
             /\ scopes'[t].fetcher_mutexes[k] = scopes[t].fetcher_mutexes[k]]_vars

\* the armed timeouts of the entry (cache_key, key) among tms
TimersOf(tms, cache_key, key) == {tm \in tms : tm.cache_key = cache_key /\ tm.key = key}

\* C32: a timeout that fires for (query type, key) removes the entry of that
\* key if it is there and changes nothing if it is not; every other entry,
\* of the same scope and of other scopes, keeps its value, timestamp, buster
\* and armed timeout, and no buster is set
C32_GcFiresOnlyItsEntry ==
    [][\A tm \in timers :
          gc_fire(tm)
          => /\ ~HasQuery(tm.cache_key, tm.key)'
             /\ ~HasQuery(tm.cache_key, tm.key) => scopes' = scopes
             /\ signals' = signals
             /\ \A t \in SyncTypes, k \in SyncKeys :
                   (HasQuery(t, k) /\ <<t, k>> # <<tm.cache_key, tm.key>>)
                   => /\ HasQuery(t, k)'
                      /\ CachedQuery(t, k)' = CachedQuery(t, k)
                      /\ TimersOf(timers', t, k) = TimersOf(timers, t, k)]_vars

\* C32 witness: a timeout has fired and removed its entry while another entry
\* of the same scope and an entry of another scope are there, each with its
\* timeout armed
C32_Witness ==
    /\ last.op = "gc" /\ last.ok
    /\ ~HasQuery(last.cache_key, last.keys[1])
    /\ \E k \in SyncKeys :
          /\ HasQuery(last.cache_key, k)
          /\ TimersOf(timers, last.cache_key, k) # {}
    /\ \E t \in SyncTypes \ {last.cache_key}, k \in SyncKeys :
          /\ HasQuery(t, k)
          /\ TimersOf(timers, t, k) # {}

\* the entry (cache_key, key) holds `value`, stamped with the present time,
\* and is not stale
Populated(cache_key, key, value) ==
    /\ HasQuery(cache_key, key)
    /\ CachedQuery(cache_key, key).value = value
    /\ CachedQuery(cache_key, key).updated_at = now
    /\ ~Query_stale(CachedQuery(cache_key, key))

\* C33: every write of an entry (by a fetch or prefetch, by set, by an update
\* that leaves Some) stamps it with the time of the write, so it is not stale
\* then, also when it had been invalidated; it stays not stale while no more
\* than stale_time has passed since the stamp; an invalidation clears the
\* stamp and keeps the value
C33_PopulationStamps ==
    /\ [](\A t \in TypeIds, k \in Keys :
            (/\ HasQuery(t, k)
             /\ CachedQuery(t, k).updated_at # None
             /\ now - CachedQuery(t, k).updated_at <= stale_time(CachedQuery(t, k).combined_options))
            => ~Query_stale(CachedQuery(t, k)))
    /\ [][\A t \in TypeIds, k \in Keys :
            /\ \A v \in Values :
                  (\/ set_query(t, k, v)
                   \/ update_query(t, k, v)
                   \/ \E p \in Callers :
                         /\ callers[p].cache_key = t /\ callers[p].key = k
                         /\ fetch_complete(p, v))
                  => Populated(t, k, v)'
            /\ (HasQuery(t, k) /\ invalidate_query(t, k))
               => /\ HasQuery(t, k)'
                  /\ CachedQuery(t, k)'.updated_at = None
                  /\ CachedQuery(t, k)'.value = CachedQuery(t, k).value
                  /\ Query_stale(CachedQuery(t, k))']_vars

\* C33 witness: set has written at a later time to an entry that was there
\* and invalidated, and the entry is stamped with that time and not stale
C33_Witness ==
    \E t \in TypeIds, k \in Keys :
        /\ last.op = "set" /\ last.cache_key = t /\ last.keys = <<k>>
        /\ \A p \in Callers : results[p].op = "invalidated"
        /\ now > 0
        /\ Populated(t, k, CachedQuery(t, k).value)

C35_TypeMismatchAborts ==
    [][\A t \in TypeIds, k \in Keys, shape \in Shapes :
          (/\ t \in DOMAIN scopes
           /\ scopes[t].shape # shape
           /\ \/ lookup_fetcher_mutex(t, k, shape)
              \/ read_cached_query(t, k, shape)
              \/ \E v \in Values : write_cached_scope(t, k, v, shape)
              \/ call_gc_query(t, k, shape))
          => /\ last'.via = "panicked"
             /\ last'.ret = << >>
             /\ ~last'.ok
             /\ scopes' = scopes
             /\ timers' = timers
             /\ signals' = signals]_vars

\* C35 witness: a read with another (K, V) has panicked on a scope that
\* holds an entry, which is still there
C35_Witness ==
    \E t \in TypeIds, k \in Keys :
        /\ last.op = "get_cached" /\ last.via = "panicked"
        /\ last.cache_key = t /\ last.keys = <<k>>
        /\ HasQuery(t, k)

C37_CombinedOptionsOrdered ==
    [][\A t \in TypeIds :
          combine(t) => last'.seen[1][1] <= last'.seen[1][2]]_vars

\* a step of one of the four invalidations
InvalidationStep ==
    \/ \E t \in TypeIds, k \in Keys : invalidate_query(t, k)
    \/ \E t \in TypeIds, ks \in KeyLists : invalidate_queries(t, ks)
    \/ \E t \in TypeIds : \E order \in Orders(ScopeEntries(t)) : invalidate_query_type(t, order)
    \/ \E order \in Orders(AllEntries) : invalidate_all_queries(order)

\* C38: an invalidation (of one key, of several, of a query type, of all)
\* leaves every entry in place with its value and the handle of its timeout,
\* and leaves the armed timeouts as they are; the timeout of an invalidated
\* entry fires at the deadline it was armed with and removes the entry
C38_InvalidationKeepsValueAndTimer ==
    /\ [][InvalidationStep
          => /\ timers' = timers
             /\ \A t \in TypeIds, k \in Keys :
                   IF HasQuery(t, k)
                   THEN /\ HasQuery(t, k)'
                        /\ CachedQuery(t, k)'.value = CachedQuery(t, k).value
                        /\ CachedQuery(t, k)'.gc_handle = CachedQuery(t, k).gc_handle
                   ELSE ~HasQuery(t, k)']_vars
    /\ [](\A t \in TypeIds, k \in Keys :
            (/\ HasQuery(t, k)
             /\ CachedQuery(t, k).updated_at = None
             /\ CachedQuery(t, k).gc_cb)
            => \E tm \in timers :
                  /\ tm.id = CachedQuery(t, k).gc_handle
                  /\ tm.cache_key = t /\ tm.key = k
                  /\ tm.duration = gc_time(CachedQuery(t, k).combined_options)
                  /\ now >= tm.armed_at + tm.duration => ENABLED gc_fire(tm))
    /\ [][\A tm \in timers :
            (gc_fire(tm) /\ HasQuery(tm.cache_key, tm.key))
            => ~HasQuery(tm.cache_key, tm.key)']_vars

\* C38 witness: an entry has just been invalidated at the very deadline of
\* the timeout armed when it was written, and that timeout is still armed
C38_Witness ==
    \E t \in TypeIds, k \in Keys :
        /\ last.op \in {"invalidate_one", "invalidate_many", "invalidate_type", "invalidate_all"}
        /\ HasQuery(t, k)
        /\ CachedQuery(t, k).updated_at = None
        /\ \E tm \in timers :
              /\ tm.id = CachedQuery(t, k).gc_handle
              /\ tm.armed_at < now
              /\ now >= tm.armed_at + tm.duration

\* C39: a set or an update of a key whose fetch is in flight takes effect in
\* that step (the cache holds what it wrote, or nothing after a deleting
\* update), and the fetch, when it completes, writes over it: after every
\* write the cache holds the value of that write
C39_LastWriteWins ==
    [][\A t \in TypeIds, k \in Keys :
          /\ \A v \in Values : set_query(t, k, v) => get_cached(t, k)' = v
          /\ \A left \in Values \cup {None} :
                update_query(t, k, left) => get_cached(t, k)' = left
          /\ \A p \in Callers, v \in Values :
                (/\ callers[p].cache_key = t /\ callers[p].key = k
                 /\ fetch_complete(p, v))
                => get_cached(t, k)' = v]_vars

\* C39 witness: the only fetch of the key that ever ran has completed after
\* a set of the key that ran while it was in flight, and the cache holds the
\* fetched value
C39_Witness ==
    \E t \in TypeIds, k \in Keys, p \in Callers :
        /\ calls[t][k] = 1
        /\ callers[p].pc = "idle"
        /\ results[p].op = "set" /\ results[p].cache_key = t /\ results[p].keys = <<k>>
        /\ last.op = "fetch" /\ last.via = "fetched"
        /\ last.cache_key = t /\ last.keys = <<k>>
        /\ last.ret = <<get_cached(t, k)>>

====
